---- MODULE Spec2Model ----
(***************************************************************************)
(* Model of convert_to_ac3.py: VideoProcessor.get_stream_info,             *)
(* VideoProcessor.process_file, the ffmpeg command builders, the ffmpeg    *)
(* run and VideoProcessor._finalize_output.                                *)
(*                                                                         *)
(* Strings that the code lowercases or searches (language tags, titles,    *)
(* codec names) are tuples of one-character strings, so that lower() and   *)
(* the substring test are computed and not assumed.                        *)
(***************************************************************************)
EXTENDS Integers, Sequences, FiniteSets, TLC

VARIABLES
    languages,          \* the caller's language list: <<>> is None, else <<list>>
    temp_dir,           \* <<>> is None, else <<the temp directory>>
    fs,                 \* the file system: path -> content
    now,                \* the wall clock, in seconds
    video_files,        \* process_directory: the files still to be processed
    file_path,          \* <<>> or <<the file process_file is working on>>
    pc,                 \* position of the run
    probe,              \* what get_stream_info returned: [audio, subs]
    audio_streams,      \* process_file: audio_streams after the language filter
    subtitle_streams,   \* process_file: subtitle_streams after the language filter
    needs_language_filtering,
    best_stream,        \* <<>> until chosen, then <<stream>>
    target_bitrate,     \* process_file: table value computed for best_stream
    cmds,               \* the ffmpeg commands issued so far, in order
    exit_code,          \* <<>> or <<return code of the last ffmpeg process>>
    returned,           \* <<>> while running, then <<TRUE>> or <<FALSE>>
    fin,                \* locals of _finalize_output
    max_parallel,       \* process_directory: the max_parallel argument
    workers,            \* the pool: worker -> the process_file call it executes
    handed,             \* the files handed to process_file so far, in order
    runs,               \* the number of runs of process_directory started
    tmdb,               \* download_trailers: <<>> or <<the metadata API's responses>>
    trailer,            \* <<>> until get_movie_trailer_url ended, then <<outcome>>
    progress,           \* _run_ffmpeg_with_progress: the locals of the polling loop
    batch,              \* download_trailers.main: the state of the loop over the movies
    extract             \* extract_subtitles: the state of the loop over the streams

vars == << languages, temp_dir, fs, now, video_files, file_path, pc, probe, audio_streams,
           subtitle_streams, needs_language_filtering, best_stream,
           target_bitrate, cmds, exit_code, returned, fin,
           max_parallel, workers, handed, runs, tmdb, trailer,
           progress, batch, extract >>

\* the state of the run beyond one sequential process_file call
poolVars == << max_parallel, workers, handed, runs >>

\* the state of the trailer lookup of download_trailers.py
trailerVars == << tmdb, trailer >>

\* the state of the progress loop and of the other two scripts
auxVars == << progress, batch, extract >>

pipeVars == << probe, audio_streams, subtitle_streams,
               needs_language_filtering, best_stream, target_bitrate, cmds >>

(***************************************************************************)
(* Bounds of the model                                                     *)
(***************************************************************************)
MaxAudio == 2       \* audio streams per file
MaxSubs == 1        \* subtitle streams per file
MaxChannels == 8    \* largest channel count of a stream

(***************************************************************************)
(* Strings                                                                 *)
(***************************************************************************)
UpperCase == <<"A","B","C","D","E","F","G","H","I","J","K","L","M",
               "N","O","P","Q","R","S","T","U","V","W","X","Y","Z","Á">>
LowerCase == <<"a","b","c","d","e","f","g","h","i","j","k","l","m",
               "n","o","p","q","r","s","t","u","v","w","x","y","z","á">>

\* str.lower() on one character
LowerChar(c) ==
    IF \E i \in 1..Len(UpperCase) : UpperCase[i] = c
    THEN LowerCase[CHOOSE i \in 1..Len(UpperCase) : UpperCase[i] = c]
    ELSE c

\* str.lower()
Lower(s) == [i \in 1..Len(s) |-> LowerChar(s[i])]

\* Python's  sub in s
Contains(sub, s) ==
    \E i \in 0..(Len(s) - Len(sub)) : SubSeq(s, i + 1, i + Len(sub)) = sub

EMPTY == <<>>
UNKNOWN == <<"u","n","k","n","o","w","n">>
UND == <<"u","n","d">>
ENG == <<"e","n","g">>
EN == <<"e","n">>
POR == <<"p","o","r">>
PT == <<"p","t">>
ENGLISH == <<"e","n","g","l","i","s","h">>
PORTUGUESE == <<"p","o","r","t","u","g","u","e","s","e">>
JPN == <<"j","p","n">>
AC3 == <<"a","c","3">>
EAC3 == <<"e","a","c","3">>
DTS == <<"d","t","s">>

COMMENTARY == <<"c","o","m","m","e","n","t","a","r","y">>
COMENTARIO_ACCENT == <<"c","o","m","e","n","t","á","r","i","o">>
COMENTARIO == <<"c","o","m","e","n","t","a","r","i","o">>
DIRECTOR == <<"d","i","r","e","c","t","o","r">>

(***************************************************************************)
(* VideoProcessor.__init__: the allow-list                                 *)
(***************************************************************************)
DefaultLanguages == <<ENG, EN, POR, PT, ENGLISH, PORTUGUESE, UNKNOWN, UND>>

DesiredLanguages(langs) ==
    LET list == IF langs = <<>> THEN DefaultLanguages ELSE langs[1]
    IN  {Lower(list[i]) : i \in 1..Len(list)}

(***************************************************************************)
(* VideoProcessor.is_commentary_track                                      *)
(***************************************************************************)
is_commentary_track(stream) ==
    LET title == Lower(stream.title)
    IN  \/ Contains(COMMENTARY, title)
        \/ Contains(COMENTARIO_ACCENT, title)
        \/ Contains(COMENTARIO, title)
        \/ Contains(DIRECTOR, title)

(***************************************************************************)
(* VideoProcessor.get_stream_info: parsing of the prober's streams         *)
(***************************************************************************)
\* dict.get(key, default) on the stream's tags
TagOr(tags, key, default) == IF key \in DOMAIN tags THEN tags[key] ELSE default

\* mutation: the tag is compared without lower()
AudioLanguage_CaseSensitive(stream) ==
    LET lang == TagOr(stream.tags, "language", UNKNOWN)
    IN  IF lang = EMPTY \/ lang = UND THEN UNKNOWN ELSE lang

AudioLanguage(stream) ==
    LET lang == Lower(TagOr(stream.tags, "language", UNKNOWN))
    IN  IF lang = EMPTY \/ lang = UND THEN UNKNOWN ELSE lang

\* mutation: the subtitle's tag is compared without lower()
SubtitleLanguage_CaseSensitive(stream) ==
    LET lang == TagOr(stream.tags, "language", UNKNOWN)
    IN  IF lang = EMPTY \/ lang = UND THEN UNKNOWN ELSE lang

SubtitleLanguage(stream) ==
    LET lang == Lower(TagOr(stream.tags, "language", UNKNOWN))
    IN  IF lang = EMPTY \/ lang = UND THEN UNKNOWN ELSE lang

ParseAudio(stream) ==
    [ index    |-> stream.index,
      codec    |-> Lower(stream.codec_name),
      language |-> AudioLanguage(stream),
      title    |-> Lower(TagOr(stream.tags, "title", EMPTY)),
      bitrate  |-> IF stream.bit_rate # 0 THEN stream.bit_rate \div 1000 ELSE 0,
      channels |-> stream.channels ]

ParseSubtitle(stream) ==
    [ index |-> stream.index, language |-> SubtitleLanguage(stream) ]

get_stream_info(content) ==
    [ audio |-> [i \in 1..Len(content.audio) |-> ParseAudio(content.audio[i])],
      subs  |-> [i \in 1..Len(content.subs) |-> ParseSubtitle(content.subs[i])] ]

(***************************************************************************)
(* VideoProcessor.process_file: language filter                            *)
(***************************************************************************)
\* mutation: the subtitle filter keeps every stream
filter_streams_KeepAll(dl, streams) == streams

filter_streams_by_language(dl, streams) ==
    LET Desired(s) == s.language \in dl
    IN  SelectSeq(streams, Desired)

\* mutation: 'unknown' and 'und' count as known desired languages
HasKnownDesiredLang_AnyDesired(dl, streams) ==
    \E i \in 1..Len(streams) : streams[i].language \in dl

HasKnownDesiredLang(dl, streams) ==
    \E i \in 1..Len(streams) : streams[i].language \in (dl \ {UNKNOWN, UND})

\* mutation: the commentary exemption is missing
KeepAudio_LanguageOnly(dl, s) == s.language \in dl

KeepAudio(dl, s) == s.language \in dl \/ is_commentary_track(s)

FilterAudio(dl, streams) ==
    LET Keep(s) == KeepAudio(dl, s)
    IN  IF HasKnownDesiredLang(dl, streams)
        THEN SelectSeq(streams, Keep)
        ELSE streams

(***************************************************************************)
(* VideoProcessor.process_file: choice of the primary stream               *)
(***************************************************************************)
\* mutation: commentaries take part in the choice of the primary stream
NonCommentary_All(streams) == streams

NonCommentary(streams) ==
    LET Plain(s) == ~is_commentary_track(s)
    IN  SelectSeq(streams, Plain)

IsAc3(s) == s.codec \in {AC3, EAC3}

Ac3Streams(streams) == SelectSeq(streams, IsAc3)

\* (channels, bitrate) of a is lexicographically below that of b
KeyLess(a, b) ==
    \/ a.channels < b.channels
    \/ a.channels = b.channels /\ a.bitrate < b.bitrate

\* Python's max(streams, key=...): the first stream with a maximal key
MaxByKey(streams) ==
    streams[CHOOSE i \in 1..Len(streams) :
                /\ \A j \in 1..Len(streams) : ~KeyLess(streams[i], streams[j])
                /\ \A j \in 1..(i - 1) : KeyLess(streams[j], streams[i])]

\* mutation: the codec is not looked at
BestStream_MaxOverall(streams) == MaxByKey(NonCommentary(streams))

BestStream(streams) ==
    LET non_commentary == NonCommentary(streams)
        ac3_streams == Ac3Streams(non_commentary)
    IN  IF ac3_streams # <<>> THEN MaxByKey(ac3_streams)
        ELSE MaxByKey(non_commentary)

TargetBitrate(channels) ==
    IF channels >= 7 THEN 1536
    ELSE IF channels >= 6 THEN 768
    ELSE IF channels >= 3 THEN 640
    ELSE 448

CommentaryTracks(streams) == SelectSeq(streams, is_commentary_track)

AllAc3(streams) == \A i \in 1..Len(streams) : IsAc3(streams[i])

\* mutation: a removed stream alone does not make the file worth processing
NeedsProcessing_IgnoresFilter(nlf, best, streams) ==
    \/ ~IsAc3(best)
    \/ (Len(streams) > 1 /\ ~AllAc3(streams))

NeedsProcessing(nlf, best, streams) ==
    \/ nlf
    \/ ~IsAc3(best)
    \/ (Len(streams) > 1 /\ ~AllAc3(streams))

(***************************************************************************)
(* Files.  A path is a directory and a name; a name is the sequence of the *)
(* pieces the code concatenates (the suffix ".mkv" is common to all and    *)
(* left out).  A content is the streams of the container and the number of *)
(* chunks written; a file shorter than its streams need is truncated.      *)
(***************************************************************************)
Path(dir, name) == [dir |-> dir, name |-> name]

FullSize(audio, subs) == 1 + Len(audio) + Len(subs)

\* bad: the prober outputs that come out empty or unparseable for this file
Content(audio, subs) ==
    [audio |-> audio, subs |-> subs, size |-> FullSize(audio, subs), bad |-> {}]

Truncated(content, n) == [content EXCEPT !.size = n]

Exists(files, p) == p \in DOMAIN files

\* os.rename / Path.rename: the source disappears, the target is replaced
Rename(files, a, b) ==
    [q \in (DOMAIN files \ {a}) \cup {b} |-> IF q = b THEN files[a] ELSE files[q]]

\* open(p, 'wb') followed by writes, or a tool writing its output
WriteFile(files, p, content) ==
    [q \in DOMAIN files \cup {p} |-> IF q = p THEN content ELSE files[q]]

\* Path.unlink
Unlink(files, p) == [q \in DOMAIN files \ {p} |-> files[q]]

(***************************************************************************)
(* The prober is run four times: audio streams, subtitle streams, format   *)
(* duration, frame rate.  A missing or truncated file gives no parseable   *)
(* output at all; an output that json.loads rejects is replaced by {} and  *)
(* get_stream_info goes on with an empty list, duration 0, and the frame   *)
(* rate '24/1'.                                                            *)
(***************************************************************************)
ProbeKinds == {"audio", "subs", "format", "fps"}

FileDuration == 60      \* seconds, what the prober reports for a readable file
FileFps == 25           \* frames per second, likewise
DefaultFps == 24        \* r_frame_rate defaults to '24/1'

NoProbe == [audio |-> <<>>, subs |-> <<>>, duration |-> 0, fps |-> 0]

Parseable(files, p, kind) ==
    /\ Exists(files, p)
    /\ files[p].size = FullSize(files[p].audio, files[p].subs)
    /\ kind \notin files[p].bad

Probe(files, p) ==
    [ audio |-> IF Parseable(files, p, "audio")
                THEN get_stream_info(files[p]).audio ELSE <<>>,
      subs |-> IF Parseable(files, p, "subs")
               THEN get_stream_info(files[p]).subs ELSE <<>>,
      duration |-> IF Parseable(files, p, "format") THEN FileDuration ELSE 0,
      fps |-> IF Parseable(files, p, "fps") THEN FileFps ELSE DefaultFps ]

(***************************************************************************)
(* VideoProcessor._get_output_path                                         *)
(***************************************************************************)
get_output_path(td, p) ==
    IF td # <<>>
    THEN Path(td[1], Append(p.name, "_converted"))
    ELSE Path(p.dir, Append(p.name, "_converted"))

(***************************************************************************)
(* The ffmpeg command lines.  map: the stream indexes mapped after the     *)
(* video stream; audio_opts: the -c:a / -b:a / -ac flags, sel = -1 for a   *)
(* flag without a stream specifier; sub_codec: the -c:s flag.              *)
(***************************************************************************)
COPY == <<"c","o","p","y">>

Indexes(streams) == [i \in 1..Len(streams) |-> streams[i].index]

AudioOpt(sel, codec, bitrate, ac) ==
    [sel |-> sel, codec |-> codec, bitrate |-> bitrate, ac |-> ac]

\* VideoProcessor._build_ffmpeg_command with audio_codec='copy', as
\* _process_keep_single_stream calls it
build_ffmpeg_command(input, output, audio, subs) ==
    [ input |-> input, output |-> output,
      map |-> Indexes(audio) \o Indexes(subs),
      audio_opts |-> << AudioOpt(-1, COPY, "", 0) >>,
      sub_codec |-> COPY,
      is_encoding |-> FALSE, audio_bitrate |-> 0 ]

\* mutation: 7.1 sources fall to the 640k bucket
ConvertBitrate_Low71(channels) ==
    IF channels >= 7 THEN "640k"
    ELSE IF channels >= 6 THEN "768k"
    ELSE IF channels >= 3 THEN "640k"
    ELSE "448k"

\* VideoProcessor._process_convert_single_to_eac3: bitrate by channel count
ConvertBitrate(channels) ==
    IF channels >= 7 THEN "768k"
    ELSE IF channels >= 6 THEN "768k"
    ELSE IF channels >= 3 THEN "640k"
    ELSE "448k"

\* VideoProcessor._process_convert_single_to_eac3: target_channels
TargetChannels(channels) ==
    IF channels >= 7 THEN 6
    ELSE IF channels >= 6 THEN 6
    ELSE IF channels >= 3 THEN channels
    ELSE 2

\* mutation: the target channel count is always passed
ChannelFlag_Always(channels) == TargetChannels(channels)

\* the -ac:a:0 flag: 6 or 2, and 0 for no flag
ChannelFlag(channels) ==
    IF TargetChannels(channels) = 6 THEN 6
    ELSE IF TargetChannels(channels) = 2 THEN 2
    ELSE 0

\* int(bitrate.replace('k', ''))
BitrateKbps(bitrate) ==
    CASE bitrate = "1536k" -> 1536
      [] bitrate = "768k" -> 768
      [] bitrate = "640k" -> 640
      [] bitrate = "448k" -> 448

\* mutation: the commentary tracks are re-encoded like the primary stream
CopyOpts_Reencode(commentary) ==
    [i \in 1..Len(commentary) |-> AudioOpt(i, EAC3, "448k", 0)]

CopyOpts(commentary) ==
    [i \in 1..Len(commentary) |-> AudioOpt(i, COPY, "", 0)]

\* the command _process_convert_single_to_eac3 builds
convert_command(input, output, stream, commentary, subs) ==
    [ input |-> input, output |-> output,
      map |-> << stream.index >> \o Indexes(commentary) \o Indexes(subs),
      audio_opts |-> << AudioOpt(0, EAC3, ConvertBitrate(stream.channels),
                                 ChannelFlag(stream.channels)) >>
                     \o CopyOpts(commentary),
      sub_codec |-> COPY,
      is_encoding |-> TRUE,
      audio_bitrate |-> BitrateKbps(ConvertBitrate(stream.channels)) ]

(***************************************************************************)
(* The transcoder, as the commands above use it: the mapped streams in the *)
(* order of the -map flags; an audio stream is copied or re-encoded as the *)
(* flag for its output position says; tags are preserved.                  *)
(***************************************************************************)
IsAudioIndex(content, idx) ==
    \E i \in 1..Len(content.audio) : content.audio[i].index = idx

IsSubIndex(content, idx) ==
    \E i \in 1..Len(content.subs) : content.subs[i].index = idx

AudioAt(content, idx) ==
    content.audio[CHOOSE i \in 1..Len(content.audio) : content.audio[i].index = idx]

SubAt(content, idx) ==
    content.subs[CHOOSE i \in 1..Len(content.subs) : content.subs[i].index = idx]

MappedAudio(cmd, content) ==
    LET IsA(idx) == IsAudioIndex(content, idx)
    IN  SelectSeq(cmd.map, IsA)

MappedSubs(cmd, content) ==
    LET IsS(idx) == IsSubIndex(content, idx)
    IN  SelectSeq(cmd.map, IsS)

\* the flags that apply to output audio stream k (0-based)
OptionFor(cmd, k) ==
    IF \E i \in 1..Len(cmd.audio_opts) : cmd.audio_opts[i].sel = k
    THEN cmd.audio_opts[CHOOSE i \in 1..Len(cmd.audio_opts) : cmd.audio_opts[i].sel = k]
    ELSE IF \E i \in 1..Len(cmd.audio_opts) : cmd.audio_opts[i].sel = -1
    THEN cmd.audio_opts[CHOOSE i \in 1..Len(cmd.audio_opts) : cmd.audio_opts[i].sel = -1]
    ELSE AudioOpt(k, AC3, "448k", 0)

Encode(stream, opt) ==
    IF opt.codec = COPY THEN stream
    ELSE [stream EXCEPT !.codec_name = opt.codec,
                        !.bit_rate = BitrateKbps(opt.bitrate) * 1000,
                        !.channels = IF opt.ac # 0 THEN opt.ac ELSE @]

Transcode(cmd, content) ==
    LET ma == MappedAudio(cmd, content)
        ms == MappedSubs(cmd, content)
        audio == [k \in 1..Len(ma) |->
                    [Encode(AudioAt(content, ma[k]), OptionFor(cmd, k - 1))
                        EXCEPT !.index = k]]
        subs == [k \in 1..Len(ms) |->
                    [SubAt(content, ms[k]) EXCEPT !.index = Len(ma) + k]]
    IN  Content(audio, subs)

(***************************************************************************)
(* Initial states: the configuration and the library on disk               *)
(***************************************************************************)
LIB == "lib"
TMP == "tmp"
Movie == Path(LIB, <<"movie">>)

\* a stream's tags: L and T are <<>> (no such tag) or <<value>>
TagKeys(L, T) ==
    (IF L = <<>> THEN {} ELSE {"language"}) \cup (IF T = <<>> THEN {} ELSE {"title"})

Tags(L, T) == [k \in TagKeys(L, T) |-> IF k = "language" THEN L[1] ELSE T[1]]

RawAudio(codec, L, T, bit_rate, channels) ==
    [ index |-> 0, codec_name |-> codec, tags |-> Tags(L, T),
      bit_rate |-> bit_rate, channels |-> channels ]

RawSub(L) == [ index |-> 0, tags |-> Tags(L, <<>>) ]

\* the container numbers the video 0, then the audio streams, then the subtitles
Numbered(audio, subs) ==
    Content([i \in 1..Len(audio) |-> [audio[i] EXCEPT !.index = i]],
            [i \in 1..Len(subs) |-> [subs[i] EXCEPT !.index = Len(audio) + i]])

SeqsUpTo(S, n) == UNION {[1..k -> S] : k \in 0..n}

RawLanguages == { <<>>, <<EMPTY>>, << <<"U","n","d">> >>, <<ENG>>, <<JPN>> }

LanguageLists ==
    { <<>>,
      << << <<"E","N","G">> >> >>,
      << << JPN, <<"U","n","k","n","o","w","n">> >> >> }

\* files that differ in language, commentary title and codec
LanguageStreams ==
    { RawAudio(c, L, T, 640000, 6) :
        c \in {AC3, DTS}, L \in RawLanguages,
        T \in { <<>>, << <<"C","o","m","m","e","n","t","a","r","y">> >> } }

\* files that differ in channel count and codec
ChannelStreams ==
    { RawAudio(c, <<ENG>>, <<>>, 0, n) : c \in {AC3, DTS}, n \in 0..MaxChannels }

\* the locals of _finalize_output before it is called; entry is the file
\* system as the call found it, e the step that raised, restore_e whether
\* the restoring rename raised
NoFinalize ==
    [backup_file |-> <<>>, copied |-> 0, entry |-> <<>>, e |-> "", restore_e |-> FALSE]

InitConfig(langs, td, content) ==
    /\ languages = langs
    /\ temp_dir = td
    /\ fs = [p \in {Movie} |-> content]
    /\ now = 0
    /\ video_files = << Movie >>
    /\ file_path = <<>>
    /\ pc = "idle"
    /\ probe = NoProbe
    /\ audio_streams = <<>>
    /\ subtitle_streams = <<>>
    /\ needs_language_filtering = FALSE
    /\ best_stream = <<>>
    /\ target_bitrate = 0
    /\ cmds = <<>>
    /\ exit_code = <<>>
    /\ returned = <<>>
    /\ fin = NoFinalize
    /\ max_parallel = 1
    /\ workers = <<>>
    /\ handed = <<>>
    /\ runs = 1
    /\ tmdb = <<>>
    /\ trailer = <<>>
    /\ progress = <<>>
    /\ batch = <<>>
    /\ extract = <<>>

InitLanguage ==
    \E langs \in LanguageLists, audio \in SeqsUpTo(LanguageStreams, MaxAudio),
       subs \in SeqsUpTo({RawSub(<<JPN>>)}, 1) :
        InitConfig(langs, <<>>, Numbered(audio, subs))

InitSubtitles ==
    \E langs \in LanguageLists, td \in { <<>>, <<TMP>> },
       c \in {AC3, DTS}, L \in { <<>>, <<ENG>>, <<JPN>> },
       subs \in SeqsUpTo({RawSub(SL) : SL \in RawLanguages}, MaxSubs) :
        InitConfig(langs, td, Numbered(<< RawAudio(c, L, <<>>, 640000, 6) >>, subs))

InitChannels ==
    \E audio \in SeqsUpTo(ChannelStreams, MaxAudio) :
        InitConfig(<<>>, <<>>, Numbered(audio, <<>>))

\* files that differ in codec, bitrate and channel count
BitrateStreams ==
    { RawAudio(c, <<ENG>>, <<>>, b, n) :
        c \in {AC3, EAC3, DTS}, b \in {448000, 640000}, n \in {2, 6} }

InitBitrates ==
    \E audio \in SeqsUpTo(BitrateStreams, MaxAudio) :
        InitConfig(<<>>, <<>>, Numbered(audio, <<>>))

Init == InitLanguage \/ InitSubtitles \/ InitChannels \/ InitBitrates

(***************************************************************************)
(* process_file, first step: get_stream_info on the next file              *)
(***************************************************************************)
\* mutation: every file is left in the list after its first attempt
GetStreamInfo_SecondAttempt ==
    /\ pc = "idle"
    /\ video_files # <<>>
    /\ file_path' = << Head(video_files) >>
    /\ video_files' = IF file_path = << Head(video_files) >>
                      THEN Tail(video_files) ELSE video_files
    /\ probe' = Probe(fs, Head(video_files))
    /\ pc' = "probed"
    /\ returned' = <<>>
    /\ audio_streams' = <<>>
    /\ subtitle_streams' = <<>>
    /\ needs_language_filtering' = FALSE
    /\ best_stream' = <<>>
    /\ target_bitrate' = 0
    /\ fin' = NoFinalize
    /\ UNCHANGED << auxVars, trailerVars, poolVars, languages, temp_dir, fs, now, cmds, exit_code >>

GetStreamInfo ==
    /\ pc = "idle"
    /\ video_files # <<>>
    /\ file_path' = << Head(video_files) >>
    /\ video_files' = Tail(video_files)
    /\ probe' = Probe(fs, Head(video_files))
    /\ pc' = "probed"
    /\ returned' = <<>>
    /\ audio_streams' = <<>>
    /\ subtitle_streams' = <<>>
    /\ needs_language_filtering' = FALSE
    /\ best_stream' = <<>>
    /\ target_bitrate' = 0
    /\ fin' = NoFinalize
    /\ UNCHANGED << auxVars, trailerVars, poolVars, languages, temp_dir, fs, now, cmds, exit_code >>

(***************************************************************************)
(* process_file, from the empty-audio test to the call of the command      *)
(* builder: filter, choose, decide                                         *)
(***************************************************************************)
Skip ==
    /\ pc' = "idle"
    /\ returned' = << FALSE >>
    /\ UNCHANGED cmds

ProcessFile ==
    /\ pc = "probed"
    /\ LET dl == DesiredLanguages(languages)
           audio == FilterAudio(dl, probe.audio)
           subs == filter_streams_by_language(dl, probe.subs)
           nlf == Len(audio) < Len(probe.audio) \/ Len(subs) < Len(probe.subs)
           best == BestStream(audio)
           output == get_output_path(temp_dir, file_path[1])
       IN  IF probe.audio = <<>>
           THEN /\ Skip
                /\ UNCHANGED << audio_streams, subtitle_streams,
                                needs_language_filtering, best_stream, target_bitrate >>
           ELSE /\ audio_streams' = audio
                /\ subtitle_streams' = subs
                /\ needs_language_filtering' = nlf
                /\ IF audio = <<>> \/ NonCommentary(audio) = <<>>
                   THEN /\ Skip
                        /\ UNCHANGED << best_stream, target_bitrate >>
                   ELSE /\ best_stream' = << best >>
                        /\ target_bitrate' = TargetBitrate(best.channels)
                        /\ IF ~NeedsProcessing(nlf, best, audio)
                           THEN Skip
                           ELSE /\ pc' = "ffmpeg"
                                /\ returned' = <<>>
                                /\ cmds' = Append(cmds,
                                     IF IsAc3(best)
                                     THEN build_ffmpeg_command(file_path[1], output,
                                              << best >> \o CommentaryTracks(audio), subs)
                                     ELSE convert_command(file_path[1], output, best,
                                              CommentaryTracks(audio), subs))
    /\ UNCHANGED << auxVars, trailerVars, poolVars, languages, temp_dir, fs, now, video_files, file_path, probe,
                    exit_code, fin >>

(***************************************************************************)
(* _run_ffmpeg_with_progress: the process is started, polled until it      *)
(* exits, and its result checked.  The caller goes on to _finalize_output  *)
(* only when it returns True.                                              *)
(***************************************************************************)
LastCmd == cmds[Len(cmds)]

FfmpegReturns(ok) ==
    /\ pc' = IF ok THEN "finalize" ELSE "idle"
    /\ returned' = IF ok THEN <<>> ELSE << FALSE >>

\* the process cannot be started, or the input cannot be read: the except branch
FfmpegException ==
    /\ exit_code' = <<>>
    /\ fs' = fs
    /\ FfmpegReturns(FALSE)

\* the process exits with an error, leaving no output or a truncated one
FfmpegFails ==
    /\ exit_code' = << 1 >>
    /\ \/ fs' = fs
       \/ fs' = WriteFile(fs, LastCmd.output,
                          Truncated(Transcode(LastCmd, fs[LastCmd.input]), 1))
    /\ FfmpegReturns(FALSE)

\* mutation: an empty or missing output is accepted as a success
FfmpegNoOutput_Accepted ==
    /\ exit_code' = << 0 >>
    /\ \/ fs' = fs
       \/ fs' = WriteFile(fs, LastCmd.output,
                          Truncated(Transcode(LastCmd, fs[LastCmd.input]), 0))
    /\ FfmpegReturns(TRUE)

\* the process exits with 0 but the output is missing or has no bytes
FfmpegNoOutput ==
    /\ exit_code' = << 0 >>
    /\ \/ fs' = fs
       \/ fs' = WriteFile(fs, LastCmd.output,
                          Truncated(Transcode(LastCmd, fs[LastCmd.input]), 0))
    /\ FfmpegReturns(FALSE)

\* the process exits with 0 and has written the output
FfmpegSucceeds ==
    /\ exit_code' = << 0 >>
    /\ fs' = WriteFile(fs, LastCmd.output, Transcode(LastCmd, fs[LastCmd.input]))
    /\ FfmpegReturns(TRUE)

RunFfmpeg ==
    /\ pc = "ffmpeg"
    /\ \/ FfmpegException
       \/ FfmpegFails
       \/ FfmpegNoOutput
       \/ FfmpegSucceeds
    /\ UNCHANGED << auxVars, trailerVars, poolVars, languages, temp_dir, now, video_files, file_path, fin, pipeVars >>

Next == GetStreamInfo \/ ProcessFile \/ RunFfmpeg

Spec == Init /\ [][Next]_vars

(***************************************************************************)
(* _finalize_output                                                        *)
(***************************************************************************)
MaxTime == 1        \* the clock runs from 0 to MaxTime

\* datetime.now().strftime("%Y%m%d_%H%M%S"): one string per second
TimeStamp(t) == ToString(t)

\* while stem.endswith('_old'): stem = stem[:-4]
RECURSIVE StripOld(_)
StripOld(name) ==
    IF name # <<>> /\ name[Len(name)] = "_old"
    THEN StripOld(SubSeq(name, 1, Len(name) - 1))
    ELSE name

BackupPath(original, t) ==
    Path(original.dir, StripOld(original.name) \o << "_backup_", TimeStamp(t) >>)

OriginalFile == file_path[1]
OutputFile == LastCmd.output
BackupFile == fin.backup_file[1]

\* if self.temp_dir and output_file.parent != original_file.parent
CopiesBack == temp_dir # <<>> /\ OutputFile.dir # OriginalFile.dir

FinalizeReturns(ok) ==
    /\ pc' = "idle"
    /\ returned' = << ok >>

\* a step raises: control goes to the except branch
Raise ==
    /\ pc' = "fin_except"
    /\ returned' = returned
    /\ fs' = fs

Entered(backup) == [NoFinalize EXCEPT !.backup_file = << backup >>, !.entry = fs]

\* the backup path is computed and the original renamed to it
FinalizeBackup ==
    /\ pc = "finalize"
    /\ LET backup == BackupPath(OriginalFile, now)
       IN  \/ /\ Exists(fs, OriginalFile) \/ CopiesBack
              /\ fs' = IF Exists(fs, OriginalFile)
                       THEN Rename(fs, OriginalFile, backup)
                       ELSE fs
              /\ fin' = Entered(backup)
              /\ pc' = IF CopiesBack THEN "fin_open" ELSE "fin_rename"
              /\ returned' = returned
           \/ /\ Exists(fs, OriginalFile) \/ ~CopiesBack
              /\ fin' = [Entered(backup) EXCEPT !.e = "rename_backup"]
              /\ Raise
    /\ UNCHANGED << auxVars, trailerVars, poolVars, languages, temp_dir, now, video_files, file_path, exit_code, pipeVars >>

\* temp-directory path: output_file.stat(), then both files are opened
FinalizeOpen ==
    /\ pc = "fin_open"
    /\ \/ /\ Exists(fs, OutputFile)
          /\ fs' = WriteFile(fs, OriginalFile, Truncated(fs[OutputFile], 0))
          /\ fin' = fin
          /\ pc' = "fin_copy"
          /\ returned' = returned
       \/ /\ fin' = [fin EXCEPT !.e = "open"]
          /\ Raise
    /\ UNCHANGED << auxVars, trailerVars, poolVars, languages, temp_dir, now, video_files, file_path, exit_code, pipeVars >>

\* temp-directory path: one chunk is read and written
FinalizeCopyChunk ==
    /\ pc = "fin_copy"
    /\ fin.copied < fs[OutputFile].size
    /\ \/ /\ fs' = WriteFile(fs, OriginalFile, Truncated(fs[OutputFile], fin.copied + 1))
          /\ fin' = [fin EXCEPT !.copied = @ + 1]
          /\ pc' = "fin_copy"
          /\ returned' = returned
       \/ /\ fin' = [fin EXCEPT !.e = "copy"]
          /\ Raise
    /\ UNCHANGED << auxVars, trailerVars, poolVars, languages, temp_dir, now, video_files, file_path, exit_code, pipeVars >>

\* mutation: the temp file is not removed
FinalizeUnlink_KeepsTemp ==
    /\ pc = "fin_copy"
    /\ fin.copied = fs[OutputFile].size
    /\ fs' = fs
    /\ fin' = fin
    /\ FinalizeReturns(TRUE)
    /\ UNCHANGED << auxVars, trailerVars, poolVars, languages, temp_dir, now, video_files, file_path, exit_code, pipeVars >>

\* temp-directory path: the read returns nothing, the temp file is removed
FinalizeUnlink ==
    /\ pc = "fin_copy"
    /\ fin.copied = fs[OutputFile].size
    /\ \/ /\ fs' = Unlink(fs, OutputFile)
          /\ fin' = fin
          /\ FinalizeReturns(TRUE)
       \/ /\ fin' = [fin EXCEPT !.e = "unlink"]
          /\ Raise
    /\ UNCHANGED << auxVars, trailerVars, poolVars, languages, temp_dir, now, video_files, file_path, exit_code, pipeVars >>

\* same-directory path: output_file.rename(original_file)
FinalizeRenameOutput ==
    /\ pc = "fin_rename"
    /\ \/ /\ Exists(fs, OutputFile)
          /\ fs' = Rename(fs, OutputFile, OriginalFile)
          /\ fin' = fin
          /\ FinalizeReturns(TRUE)
       \/ /\ fin' = [fin EXCEPT !.e = "rename_output"]
          /\ Raise
    /\ UNCHANGED << auxVars, trailerVars, poolVars, languages, temp_dir, now, video_files, file_path, exit_code, pipeVars >>

\* except Exception: the backup is renamed back if the original is missing
FinalizeExcept ==
    /\ pc = "fin_except"
    /\ IF Exists(fs, BackupFile) /\ ~Exists(fs, OriginalFile)
       THEN \/ /\ fs' = Rename(fs, BackupFile, OriginalFile)
               /\ fin' = fin
            \/ /\ fs' = fs
               /\ fin' = [fin EXCEPT !.restore_e = TRUE]
       ELSE /\ fs' = fs
            /\ fin' = fin
    /\ FinalizeReturns(FALSE)
    /\ UNCHANGED << auxVars, trailerVars, poolVars, languages, temp_dir, now, video_files, file_path, exit_code, pipeVars >>

\* a second passes while the transcoder runs
Tick ==
    /\ pc = "ffmpeg"
    /\ now < MaxTime
    /\ now' = now + 1
    /\ UNCHANGED << auxVars, trailerVars, poolVars, languages, temp_dir, fs, video_files, file_path, pc, exit_code,
                    returned, fin, pipeVars >>

FinalizeOutput ==
    \/ FinalizeBackup
    \/ FinalizeOpen
    \/ FinalizeCopyChunk
    \/ FinalizeUnlink
    \/ FinalizeRenameOutput
    \/ FinalizeExcept

(***************************************************************************)
(* A run of process_directory, sequential, over a small library            *)
(***************************************************************************)
MovieOld == Path(LIB, <<"movie", "_old">>)

Library ==
    [p \in {Movie, MovieOld} |->
        IF p = Movie
        THEN Numbered(<< RawAudio(DTS, <<ENG>>, <<>>, 1536000, 6) >>, << RawSub(<<ENG>>) >>)
        ELSE Numbered(<< RawAudio(DTS, <<ENG>>, <<>>, 768000, 2) >>, <<>>)]

\* the prober outputs that fail on the first file: none, one of them, all
ProbeFaults == { {} } \cup { {k} : k \in ProbeKinds } \cup { ProbeKinds }

LibraryWith(bad) == [Library EXCEPT ![Movie].bad = bad]

InitRun ==
    /\ languages = <<>>
    /\ temp_dir \in { <<>>, <<TMP>>, <<LIB>> }
    /\ fs \in { LibraryWith(bad) : bad \in ProbeFaults }
    /\ now = 0
    /\ video_files \in { << Movie, MovieOld >>, << MovieOld, Movie >> }
    /\ file_path = <<>>
    /\ pc = "idle"
    /\ probe = NoProbe
    /\ audio_streams = <<>>
    /\ subtitle_streams = <<>>
    /\ needs_language_filtering = FALSE
    /\ best_stream = <<>>
    /\ target_bitrate = 0
    /\ cmds = <<>>
    /\ exit_code = <<>>
    /\ returned = <<>>
    /\ fin = NoFinalize
    /\ max_parallel = 1
    /\ workers = <<>>
    /\ handed = <<>>
    /\ runs = 1
    /\ tmdb = <<>>
    /\ trailer = <<>>
    /\ progress = <<>>
    /\ batch = <<>>
    /\ extract = <<>>

NextRun == GetStreamInfo \/ ProcessFile \/ RunFfmpeg \/ Tick \/ FinalizeOutput

SpecRun == InitRun /\ [][NextRun]_vars

(***************************************************************************)
(* process_file as a function of what get_stream_info returned: <<>> when  *)
(* the file is skipped, else <<the ffmpeg command>>                        *)
(***************************************************************************)
process_file(langs, td, pr, file) ==
    LET dl == DesiredLanguages(langs)
        audio == FilterAudio(dl, pr.audio)
        subs == filter_streams_by_language(dl, pr.subs)
        nlf == Len(audio) < Len(pr.audio) \/ Len(subs) < Len(pr.subs)
        best == BestStream(audio)
        output == get_output_path(td, file)
    IN  IF pr.audio = <<>> THEN <<>>
        ELSE IF audio = <<>> \/ NonCommentary(audio) = <<>> THEN <<>>
        ELSE IF ~NeedsProcessing(nlf, best, audio) THEN <<>>
        ELSE IF IsAc3(best)
        THEN << build_ffmpeg_command(file, output,
                                     << best >> \o CommentaryTracks(audio), subs) >>
        ELSE << convert_command(file, output, best, CommentaryTracks(audio), subs) >>

(***************************************************************************)
(* process_directory with max_parallel workers.  With max_parallel = 1 the *)
(* single worker is the for loop of the main thread; otherwise the workers *)
(* are the threads of ThreadPoolExecutor(max_workers=max_parallel), which  *)
(* take the submitted calls in submission order.  Each worker runs one     *)
(* process_file call at a time, step by step; the file system and the      *)
(* clock are shared.                                                       *)
(***************************************************************************)
MaxParallel == 2

SYSTMP == "systmp"      \* tempfile.gettempdir()

\* tempfile.mkstemp(suffix='.txt'): a name no earlier call has returned
ProgressFile(n) == Path(SYSTMP, << "tmp", ToString(n) >>)

\* mutation: the executor starts one thread more than asked
ThreadPoolExecutor_ExtraThread(max_workers) ==
    [w \in 1..(max_workers + 1) |->
        [ pc |-> "idle", file |-> <<>>, probe |-> NoProbe, cmd |-> <<>>,
          progress_file |-> <<>>, backup_file |-> <<>> ]]

\* ThreadPoolExecutor(max_workers=max_parallel): the threads, all free
ThreadPoolExecutor(max_workers) ==
    [w \in 1..max_workers |->
        [ pc |-> "idle", file |-> <<>>, probe |-> NoProbe, cmd |-> <<>>,
          progress_file |-> <<>>, backup_file |-> <<>> ]]

IdleWorker ==
    [ pc |-> "idle", file |-> <<>>, probe |-> NoProbe, cmd |-> <<>>,
      progress_file |-> <<>>, backup_file |-> <<>> ]

\* the locals of the sequential model, which the pool does not use
seqVars == << file_path, pc, probe, audio_streams, subtitle_streams,
              needs_language_filtering, best_stream, target_bitrate,
              exit_code, returned, fin >>

Busy(w) == workers[w].pc # "idle"

\* the call returns, with True or False alike: the worker is free again
TaskReturns(w) == workers' = [workers EXCEPT ![w] = IdleWorker]

TaskGoes(w, to) == workers' = [workers EXCEPT ![w].pc = to]

\* a free worker takes the next file and process_file probes it; workers
\* are interchangeable, so the free worker of lowest number takes it
TaskStart(w) ==
    /\ ~Busy(w)
    /\ \A v \in DOMAIN workers : v < w => Busy(v)
    /\ video_files # <<>>
    /\ LET f == Head(video_files)
       IN  /\ workers' = [workers EXCEPT ![w] =
                  [IdleWorker EXCEPT !.pc = "probed", !.file = << f >>,
                                     !.probe = Probe(fs, f)]]
           /\ handed' = Append(handed, f)
    /\ video_files' = Tail(video_files)
    /\ UNCHANGED << auxVars, trailerVars, seqVars, languages, temp_dir, fs, now, cmds, max_parallel, runs >>

\* process_file decides; the command is built and the progress file made
TaskProcessFile(w) ==
    /\ workers[w].pc = "probed"
    /\ LET c == process_file(languages, temp_dir, workers[w].probe, workers[w].file[1])
       IN  IF c = <<>>
           THEN /\ TaskReturns(w)
                /\ cmds' = cmds
           ELSE /\ cmds' = Append(cmds, c[1])
                /\ workers' = [workers EXCEPT ![w].pc = "ffmpeg", ![w].cmd = c,
                        ![w].progress_file = << ProgressFile(Len(cmds) + 1) >>]
    /\ UNCHANGED << auxVars, trailerVars, seqVars, languages, temp_dir, fs, now, video_files, handed,
                    max_parallel, runs >>

\* mutation: a failed transcode shuts the pool down, dropping the queued files
TaskRunFfmpeg_CancelsSiblings(w) ==
    /\ workers[w].pc = "ffmpeg"
    /\ LET cmd == workers[w].cmd[1]
       IN  \/ /\ fs' = fs
              /\ TaskReturns(w)
              /\ video_files' = <<>>
           \/ /\ Exists(fs, cmd.input)
              /\ fs' = WriteFile(fs, cmd.output, Transcode(cmd, fs[cmd.input]))
              /\ TaskGoes(w, "finalize")
              /\ video_files' = video_files
    /\ UNCHANGED << auxVars, trailerVars, seqVars, languages, temp_dir, now, cmds, handed,
                    max_parallel, runs >>

\* _run_ffmpeg_with_progress: the transcoder fails (or cannot be started),
\* or writes its output from what the input path holds
TaskRunFfmpeg(w) ==
    /\ workers[w].pc = "ffmpeg"
    /\ LET cmd == workers[w].cmd[1]
       IN  \/ /\ fs' = fs
              /\ TaskReturns(w)
           \/ /\ Exists(fs, cmd.input)
              /\ fs' = WriteFile(fs, cmd.output, Transcode(cmd, fs[cmd.input]))
              /\ TaskGoes(w, "finalize")
    /\ UNCHANGED << auxVars, trailerVars, seqVars, languages, temp_dir, now, video_files, cmds, handed,
                    max_parallel, runs >>

TaskCopiesBack(w) ==
    temp_dir # <<>> /\ workers[w].cmd[1].output.dir # workers[w].file[1].dir

\* _finalize_output: the backup path is computed, the original renamed to it
TaskFinalizeBackup(w) ==
    /\ workers[w].pc = "finalize"
    /\ LET original == workers[w].file[1]
           backup == BackupPath(original, now)
       IN  \/ /\ Exists(fs, original) \/ TaskCopiesBack(w)
              /\ fs' = IF Exists(fs, original) THEN Rename(fs, original, backup) ELSE fs
              /\ workers' = [workers EXCEPT
                     ![w].pc = IF TaskCopiesBack(w) THEN "fin_copy" ELSE "fin_rename",
                     ![w].backup_file = << backup >>]
           \/ /\ Exists(fs, original) \/ ~TaskCopiesBack(w)
              /\ fs' = fs
              /\ workers' = [workers EXCEPT ![w].pc = "fin_except",
                                            ![w].backup_file = << backup >>]
    /\ UNCHANGED << auxVars, trailerVars, seqVars, languages, temp_dir, now, video_files, cmds, handed,
                    max_parallel, runs >>

\* _finalize_output, temp-directory path: stat, open, copy, unlink
TaskFinalizeCopy(w) ==
    /\ workers[w].pc = "fin_copy"
    /\ LET original == workers[w].file[1]
           output == workers[w].cmd[1].output
       IN  \/ /\ Exists(fs, output)
              /\ fs' = Unlink(WriteFile(fs, original, fs[output]), output)
              /\ TaskReturns(w)
           \/ /\ fs' = IF Exists(fs, output)
                       THEN WriteFile(fs, original, Truncated(fs[output], 0))
                       ELSE fs
              /\ TaskGoes(w, "fin_except")
    /\ UNCHANGED << auxVars, trailerVars, seqVars, languages, temp_dir, now, video_files, cmds, handed,
                    max_parallel, runs >>

\* _finalize_output, same-directory path: output_file.rename(original_file)
TaskFinalizeRename(w) ==
    /\ workers[w].pc = "fin_rename"
    /\ LET original == workers[w].file[1]
           output == workers[w].cmd[1].output
       IN  \/ /\ Exists(fs, output)
              /\ fs' = Rename(fs, output, original)
              /\ TaskReturns(w)
           \/ /\ fs' = fs
              /\ TaskGoes(w, "fin_except")
    /\ UNCHANGED << auxVars, trailerVars, seqVars, languages, temp_dir, now, video_files, cmds, handed,
                    max_parallel, runs >>

\* _finalize_output, except branch
TaskFinalizeExcept(w) ==
    /\ workers[w].pc = "fin_except"
    /\ LET original == workers[w].file[1]
           backup == workers[w].backup_file[1]
       IN  IF Exists(fs, backup) /\ ~Exists(fs, original)
           THEN fs' = Rename(fs, backup, original) \/ fs' = fs
           ELSE fs' = fs
    /\ TaskReturns(w)
    /\ UNCHANGED << auxVars, trailerVars, seqVars, languages, temp_dir, now, video_files, cmds, handed,
                    max_parallel, runs >>

\* a second passes while some transcoder runs
PoolTick ==
    /\ \E w \in DOMAIN workers : workers[w].pc = "ffmpeg"
    /\ now < MaxTime
    /\ now' = now + 1
    /\ UNCHANGED << auxVars, trailerVars, seqVars, languages, temp_dir, fs, video_files, cmds, poolVars >>

\* two directories of the library that hold a file of the same name, and a
\* file that needs no processing
DirA == "lib/a"
DirB == "lib/b"
MovieA == Path(DirA, << "movie" >>)
MovieB == Path(DirB, << "movie" >>)

PoolLibrary ==
    [p \in {MovieA, MovieB, Movie} |->
        IF p = Movie
        THEN Numbered(<< RawAudio(AC3, <<ENG>>, <<>>, 640000, 6) >>, <<>>)
        ELSE Numbered(<< RawAudio(DTS, <<ENG>>, <<>>, 1536000, 6) >>, <<>>)]

\* the library with a file the prober cannot read
PoolLibraryBad == [PoolLibrary EXCEPT ![Movie].bad = ProbeKinds]

InitPoolWith(files, order, n) ==
    /\ languages = <<>>
    /\ temp_dir \in { <<>>, <<TMP>> }
    /\ fs = files
    /\ now = 0
    /\ video_files = order
    /\ file_path = <<>>
    /\ pc = "idle"
    /\ probe = NoProbe
    /\ audio_streams = <<>>
    /\ subtitle_streams = <<>>
    /\ needs_language_filtering = FALSE
    /\ best_stream = <<>>
    /\ target_bitrate = 0
    /\ cmds = <<>>
    /\ exit_code = <<>>
    /\ returned = <<>>
    /\ fin = NoFinalize
    /\ max_parallel = n
    /\ workers = ThreadPoolExecutor(n)
    /\ handed = <<>>
    /\ runs = 1
    /\ tmdb = <<>>
    /\ trailer = <<>>
    /\ progress = <<>>
    /\ batch = <<>>
    /\ extract = <<>>

InitPool ==
    \E files \in { PoolLibrary, [PoolLibrary EXCEPT ![MovieB].bad = ProbeKinds] },
       order \in { << MovieA, MovieB, Movie >>, << Movie, MovieB, MovieA >> },
       n \in 1..MaxParallel :
        InitPoolWith(files, order, n)

NextPool ==
    \/ \E w \in 1..MaxParallel : w \in DOMAIN workers /\ TaskStart(w)
    \/ \E w \in 1..MaxParallel : w \in DOMAIN workers /\ TaskProcessFile(w)
    \/ \E w \in 1..MaxParallel : w \in DOMAIN workers /\ TaskRunFfmpeg(w)
    \/ \E w \in 1..MaxParallel : w \in DOMAIN workers /\ TaskFinalizeBackup(w)
    \/ \E w \in 1..MaxParallel : w \in DOMAIN workers /\ TaskFinalizeCopy(w)
    \/ \E w \in 1..MaxParallel : w \in DOMAIN workers /\ TaskFinalizeRename(w)
    \/ \E w \in 1..MaxParallel : w \in DOMAIN workers /\ TaskFinalizeExcept(w)
    \/ PoolTick

SpecPool == InitPool /\ [][NextPool]_vars

\* the sequential and the pooled mode over one library
InitPoolModes ==
    \E n \in {1, 2} : InitPoolWith(PoolLibraryBad, << MovieA, Movie, MovieB >>, n)

\* threads are scheduled and every transcoder process exits
SpecPoolFair == InitPoolModes /\ [][NextPool]_vars /\ WF_vars(NextPool)

(***************************************************************************)
(* A later run of process_directory over the same directory: the files    *)
(* are enumerated again, in whatever order the directory walk gives.       *)
(***************************************************************************)
MaxRuns == 2

\* the directories the recursive walk of the library visits
LibraryDirs == { LIB, DirA, DirB }

\* dir_path.rglob('*.mp4') and rglob('*.mkv'): every video file under the directory
rglob(files) == { p \in DOMAIN files : p.dir \in LibraryDirs }

Orders(S) ==
    { order \in [1..Cardinality(S) -> S] :
        \A i, j \in 1..Cardinality(S) : order[i] = order[j] => i = j }

ProcessDirectory ==
    /\ pc = "idle"
    /\ video_files = <<>>
    /\ runs < MaxRuns
    /\ rglob(fs) # {}
    /\ video_files' \in Orders(rglob(fs))
    /\ runs' = runs + 1
    /\ UNCHANGED << auxVars, trailerVars, languages, temp_dir, fs, now, file_path, pc, exit_code,
                    returned, fin, pipeVars, max_parallel, workers, handed >>

RerunLibrary ==
    [p \in {Movie} |->
        Numbered(<< RawAudio(DTS, <<ENG>>, <<>>, 1536000, 6) >>, << RawSub(<<ENG>>) >>)]

InitRerun ==
    /\ languages = <<>>
    /\ temp_dir \in { <<>>, <<TMP>> }
    /\ fs = RerunLibrary
    /\ now = 0
    /\ video_files = << Movie >>
    /\ file_path = <<>>
    /\ pc = "idle"
    /\ probe = NoProbe
    /\ audio_streams = <<>>
    /\ subtitle_streams = <<>>
    /\ needs_language_filtering = FALSE
    /\ best_stream = <<>>
    /\ target_bitrate = 0
    /\ cmds = <<>>
    /\ exit_code = <<>>
    /\ returned = <<>>
    /\ fin = NoFinalize
    /\ max_parallel = 1
    /\ workers = <<>>
    /\ handed = <<>>
    /\ runs = 1
    /\ tmdb = <<>>
    /\ trailer = <<>>
    /\ progress = <<>>
    /\ batch = <<>>
    /\ extract = <<>>

NextRerun ==
    GetStreamInfo \/ ProcessFile \/ RunFfmpeg \/ Tick \/ FinalizeOutput \/ ProcessDirectory

SpecRerun == InitRerun /\ [][NextRerun]_vars

(***************************************************************************)
(* download_trailers.py: the trailer lookup                                *)
(***************************************************************************)
MaxResults == 2     \* entries of a search response
MaxVideos == 2      \* entries of a videos response

\* the text before the key in a watch URL; a key is a tuple of characters
WATCH == "https://www.youtube.com/watch?v="

WatchUrl(key) == << WATCH >> \o key

\* what a requests.get(...), raise_for_status(), json() sequence ends in
Statuses == { "ok", "ConnectionError", "HTTPError", "JSONDecodeError" }

\* a response: results is <<>> when the key is missing or null, else <<list>>
Response(status, results) == [status |-> status, results |-> results]

\* ids of search results; 0 stands for a missing, null or zero id
MovieIds == { 7, 8 }

SearchResults == [id : {0} \cup MovieIds]

\* an entry of a videos response; object is FALSE for an entry that is not
\* a JSON object, and "" or <<>> stands for a missing field
VideoEntries ==
    [object : {TRUE}, type : {"Trailer", "Teaser"}, site : {"YouTube", "Vimeo"},
     key : { <<>>, <<"a">>, <<"b">> }]
    \cup { [object |-> FALSE, type |-> "", site |-> "", key |-> <<>>] }

Responses(entries, n) ==
    { Response(status, <<>>) : status \in Statuses }
    \cup { Response("ok", << list >>) : list \in SeqsUpTo(entries, n) }

\* the videos of the second movie id, the same in every run of the model
OtherVideos ==
    Response("ok", << << [object |-> TRUE, type |-> "Trailer", site |-> "YouTube",
                          key |-> <<"c">>] >> >>)

TmdbApis ==
    { [search |-> search, videos |-> [id \in MovieIds |-> IF id = 7 THEN videos ELSE OtherVideos]] :
        search \in Responses(SearchResults, MaxResults),
        videos \in Responses(VideoEntries, MaxVideos) }

\* how a piece of code ends: it returns a value or raises
Returns(value) == [kind |-> "return", value |-> value]
Raises == [kind |-> "raise", value |-> <<>>]

\* x.get('results') or []
ResultsOrEmpty(response) ==
    IF response.results = <<>> THEN <<>> ELSE response.results[1]

Qualifies_AnySite(v) == v.type = "Trailer" /\ v.key # <<>>

Qualifies(v) == v.type = "Trailer" /\ v.site = "YouTube" /\ v.key # <<>>

RECURSIVE FirstTrailer(_)
FirstTrailer(vids) ==
    IF vids = <<>> THEN Returns(<<>>)
    ELSE LET v == Head(vids)
         IN  IF ~v.object THEN Raises
             ELSE IF Qualifies(v) THEN Returns(<< WatchUrl(v.key) >>)
             ELSE FirstTrailer(Tail(vids))

\* the body of the try block
TrailerLookup(api) ==
    IF api.search.status # "ok" THEN Raises
    ELSE LET results == ResultsOrEmpty(api.search)
         IN  IF results = <<>> THEN Returns(<<>>)
             ELSE LET movie_id == results[1].id
                  IN  IF movie_id = 0 THEN Returns(<<>>)
                      ELSE LET r2 == api.videos[movie_id]
                           IN  IF r2.status # "ok" THEN Raises
                               ELSE FirstTrailer(ResultsOrEmpty(r2))

get_movie_trailer_url(api) ==
    LET outcome == TrailerLookup(api)
    IN  IF outcome.kind = "raise" THEN Returns(<<>>) ELSE outcome

GetMovieTrailerUrl ==
    /\ tmdb # <<>>
    /\ trailer = <<>>
    /\ trailer' = << get_movie_trailer_url(tmdb[1]) >>
    /\ UNCHANGED << auxVars, tmdb, poolVars, languages, temp_dir, fs, now, video_files,
                    file_path, pc, exit_code, returned, fin, pipeVars >>

InitTrailer ==
    /\ tmdb \in { << api >> : api \in TmdbApis }
    /\ trailer = <<>>
    /\ progress = <<>>
    /\ batch = <<>>
    /\ extract = <<>>
    /\ languages = <<>>
    /\ temp_dir = <<>>
    /\ fs = << >>
    /\ now = 0
    /\ video_files = <<>>
    /\ file_path = <<>>
    /\ pc = "idle"
    /\ probe = NoProbe
    /\ audio_streams = <<>>
    /\ subtitle_streams = <<>>
    /\ needs_language_filtering = FALSE
    /\ best_stream = <<>>
    /\ target_bitrate = 0
    /\ cmds = <<>>
    /\ exit_code = <<>>
    /\ returned = <<>>
    /\ fin = NoFinalize
    /\ max_parallel = 1
    /\ workers = <<>>
    /\ handed = <<>>
    /\ runs = 1

NextTrailer == GetMovieTrailerUrl

SpecTrailer == InitTrailer /\ [][NextTrailer]_vars

(***************************************************************************)
(* process_file applied again to a file it has replaced: a second run of   *)
(* process_directory over libraries that differ in the codec, language and *)
(* title of a second audio stream and in the subtitle                      *)
(***************************************************************************)
COMMENTARY_TITLE == <<"C","o","m","m","e","n","t","a","r","y">>

SecondStreams ==
    { RawAudio(c, <<JPN>>, << COMMENTARY_TITLE >>, 192000, 2) : c \in {AC3, DTS} }
    \cup { RawAudio(DTS, <<ENG>>, <<>>, 192000, 2), RawAudio(AC3, <<JPN>>, <<>>, 192000, 2) }

TwiceLibraries ==
    { [p \in {Movie} |-> Numbered(<< RawAudio(c, <<ENG>>, <<>>, 640000, 6) >> \o second, subs)] :
        c \in {AC3, DTS},
        second \in SeqsUpTo(SecondStreams, 1),
        subs \in SeqsUpTo({RawSub(<<JPN>>)}, 1) }

InitTwice ==
    /\ languages = <<>>
    /\ temp_dir \in { <<>>, <<TMP>> }
    /\ fs \in TwiceLibraries
    /\ now = 0
    /\ video_files = << Movie >>
    /\ file_path = <<>>
    /\ pc = "idle"
    /\ probe = NoProbe
    /\ audio_streams = <<>>
    /\ subtitle_streams = <<>>
    /\ needs_language_filtering = FALSE
    /\ best_stream = <<>>
    /\ target_bitrate = 0
    /\ cmds = <<>>
    /\ exit_code = <<>>
    /\ returned = <<>>
    /\ fin = NoFinalize
    /\ max_parallel = 1
    /\ workers = <<>>
    /\ handed = <<>>
    /\ runs = 1
    /\ tmdb = <<>>
    /\ trailer = <<>>
    /\ progress = <<>>
    /\ batch = <<>>
    /\ extract = <<>>

NextTwice ==
    GetStreamInfo \/ ProcessFile \/ RunFfmpeg \/ Tick \/ FinalizeOutput \/ ProcessDirectory

SpecTwice == InitTwice /\ [][NextTwice]_vars

(***************************************************************************)
(* _run_ffmpeg_with_progress: the polling loop.  Sizes are in bytes, times *)
(* in seconds; a float is the fraction num/den of two integers; error is   *)
(* the exception the computation raises, "" for none.                      *)
(***************************************************************************)
MaxSize == 4        \* largest output size and largest expected size
MaxElapsed == 2     \* seconds the process runs at most

\* the converter's variables in a run that uses another part of the scripts
ConverterAtRest ==
    /\ languages = <<>>
    /\ temp_dir = <<>>
    /\ fs = << >>
    /\ now = 0
    /\ video_files = <<>>
    /\ file_path = <<>>
    /\ pc = "idle"
    /\ probe = NoProbe
    /\ audio_streams = <<>>
    /\ subtitle_streams = <<>>
    /\ needs_language_filtering = FALSE
    /\ best_stream = <<>>
    /\ target_bitrate = 0
    /\ cmds = <<>>
    /\ exit_code = <<>>
    /\ returned = <<>>
    /\ fin = NoFinalize
    /\ max_parallel = 1
    /\ workers = <<>>
    /\ handed = <<>>
    /\ runs = 1

Float(num, den) == [num |-> num, den |-> den, error |-> ""]

ZeroDivisionError == [num |-> 0, den |-> 1, error |-> "ZeroDivisionError"]

\* a / b
Divide(a, b) ==
    IF a.error # "" THEN a
    ELSE IF b.error # "" THEN b
    ELSE IF b.num = 0 THEN ZeroDivisionError
    ELSE IF b.num > 0 THEN Float(a.num * b.den, a.den * b.num)
    ELSE Float(-(a.num * b.den), -(a.den * b.num))

Times(a, n) == IF a.error # "" THEN a ELSE Float(a.num * n, a.den)

Minus(a, n) == IF a.error # "" THEN a ELSE Float(a.num - n * a.den, a.den)

\* a > num/den, for den > 0
Greater(a, num, den) == a.error = "" /\ a.num * den > num * a.den

\* min(99, x)
Min99(x) == IF x.error # "" \/ ~Greater(x, 99, 1) THEN x ELSE Float(99, 1)

\* mutation: the percentage is computed whatever the expected size
ProgressPercent_Unguarded(current, expected_size) ==
    IF current = <<>> THEN Float(0, 1)
    ELSE Min99(Times(Divide(Float(current[1], 1), Float(expected_size, 1)), 100))

\* percent, from 'percent = 0' to the end of the size test; current is <<>>
\* when the output file does not exist, else <<its size>>
ProgressPercent(current, expected_size) ==
    IF current = <<>> THEN Float(0, 1)
    ELSE IF expected_size > 0
    THEN Min99(Times(Divide(Float(current[1], 1), Float(expected_size, 1)), 100))
    ELSE Float(0, 1)

\* the ETA branch: "" when nothing is computed, else the text or the seconds
EtaNone == [text |-> "", remaining |-> Float(0, 1)]

ProgressEta(percent, elapsed) ==
    IF percent.error # "" THEN [text |-> "", remaining |-> percent]
    ELSE IF ~Greater(percent, 1, 10) THEN EtaNone
    ELSE IF elapsed > 0 /\ Greater(percent, 0, 1)
    THEN LET total_est == Times(Divide(Float(elapsed, 1), percent), 100)
         IN  [text |-> "eta", remaining |-> Minus(total_est, elapsed)]
    ELSE [text |-> "Calculating...", remaining |-> Float(0, 1)]

\* what the loop prints: nothing yet, a percentage, or the final line
Started(expected_size) ==
    [ expected_size |-> expected_size, elapsed |-> 0, current |-> <<>>,
      percent |-> Float(0, 1), eta |-> EtaNone,
      shown |-> "0.0% - Starting...", returncode |-> <<>> ]

\* one turn of 'while process.poll() is None'
Poll ==
    /\ progress # <<>>
    /\ progress[1].returncode = <<>>
    /\ progress[1].elapsed < MaxElapsed
    /\ \E current \in { <<>> } \cup { << n >> : n \in 0..MaxSize }, dt \in {0, 1} :
          LET percent == ProgressPercent(current, progress[1].expected_size)
              eta == ProgressEta(percent, progress[1].elapsed + dt)
          IN  progress' = << [progress[1] EXCEPT
                                !.elapsed = @ + dt,
                                !.current = current,
                                !.percent = percent,
                                !.eta = eta,
                                !.shown = IF Greater(percent, 1, 10) THEN "percent" ELSE @] >>
    /\ UNCHANGED << batch, extract, trailerVars, poolVars, languages, temp_dir, fs, now,
                    video_files, file_path, pc, exit_code, returned, fin, pipeVars >>

\* the process has exited: communicate(), then the return code is looked at
ProcessExits ==
    /\ progress # <<>>
    /\ progress[1].returncode = <<>>
    /\ \E code \in {0, 1} :
          progress' = << [progress[1] EXCEPT
                            !.returncode = << code >>,
                            !.shown = IF code = 0 THEN "100% - Complete!" ELSE "FAILED!"] >>
    /\ UNCHANGED << batch, extract, trailerVars, poolVars, languages, temp_dir, fs, now,
                    video_files, file_path, pc, exit_code, returned, fin, pipeVars >>

InitProgress ==
    /\ ConverterAtRest
    /\ tmdb = <<>>
    /\ trailer = <<>>
    /\ progress \in { << Started(expected_size) >> : expected_size \in 0..MaxSize }
    /\ batch = <<>>
    /\ extract = <<>>

NextProgress == Poll \/ ProcessExits

SpecProgress == InitProgress /\ [][NextProgress]_vars

(***************************************************************************)
(* download_trailers.py: main, the loop over the movie files               *)
(***************************************************************************)
MaxPatterns == 2    \* glob patterns of --patterns

\* a media file: stem and suffix; the directory lists them in this order
MediaFile(stem, suffix) == [stem |-> stem, suffix |-> suffix]

MovieDir == << MediaFile(<<"a">>, "mkv"), MediaFile(<<"b">>, "mp4") >>

Patterns == { "*.mp4", "*.mkv", "*.m*" }

Matches(pat, file) ==
    CASE pat = "*.mp4" -> file.suffix = "mp4"
      [] pat = "*.mkv" -> file.suffix = "mkv"
      [] pat = "*.m*" -> file.suffix \in {"mp4", "mkv"}

\* directory.rglob(pat)
RglobPattern(pat) ==
    LET Hit(file) == Matches(pat, file)
    IN  SelectSeq(MovieDir, Hit)

\* the first loop of find_movie_files: files.extend(...) for each pattern
RECURSIVE ExtendAll(_)
ExtendAll(patterns) ==
    IF patterns = <<>> THEN <<>>
    ELSE RglobPattern(Head(patterns)) \o ExtendAll(Tail(patterns))

\* the second loop of find_movie_files: the first occurrence of each path
RECURSIVE Deduplicate(_)
Deduplicate(files) ==
    IF files = <<>> THEN <<>>
    ELSE LET front == Deduplicate(SubSeq(files, 1, Len(files) - 1))
             last == files[Len(files)]
         IN  IF \E i \in 1..Len(front) : front[i] = last
             THEN front ELSE Append(front, last)

find_movie_files(patterns) == Deduplicate(ExtendAll(patterns))

\* str.strip() on a text of characters, blanks being " "
RECURSIVE Strip(_)
Strip(text) ==
    IF text = <<>> THEN text
    ELSE IF Head(text) = " " THEN Strip(Tail(text))
    ELSE IF text[Len(text)] = " " THEN Strip(SubSeq(text, 1, Len(text) - 1))
    ELSE text

\* an .nfo file: whether ET.parse accepts it, the text of the root's
\* originaltitle child and of movie/originaltitle; <<>> for no such element
\* or an element without text, else <<text>>
Nfo(parseable, root_title, movie_title) ==
    [parseable |-> parseable, root_title |-> root_title, movie_title |-> movie_title]

NfoFiles ==
    { <<>> }
    \cup { << Nfo(FALSE, <<>>, <<>>) >> }
    \cup { << Nfo(TRUE, r, m) >> :
             r \in { <<>>, << <<" ">> >>, << <<" ","T","1"," ">> >> },
             m \in { <<>>, << <<"T","2">> >> } }

\* <<>> is None
get_movie_name_from_nfo(nfo) ==
    IF nfo = <<>> THEN <<>>
    ELSE IF ~nfo[1].parseable THEN <<>>
    ELSE IF nfo[1].root_title # <<>> THEN << Strip(nfo[1].root_title[1]) >>
    ELSE IF nfo[1].movie_title # <<>> THEN << Strip(nfo[1].movie_title[1]) >>
    ELSE <<>>

\* get_movie_name_from_nfo(nfo_path) or movie.stem
MovieName(nfo, movie) ==
    LET name == get_movie_name_from_nfo(nfo)
    IN  IF name # <<>> /\ name[1] # <<>> THEN name[1] ELSE movie.stem

\* what download_youtube_video can end in: a return code, or the exception
\* of subprocess.run when the yt_dlp package is missing and the yt-dlp
\* binary is not on the PATH
DownloadOutcomes(yt_dlp_available, on_path) ==
    IF yt_dlp_available \/ on_path THEN {"0", "1"} ELSE {"FileNotFoundError"}

BatchStarted(patterns, dry_run, yt_dlp_available, on_path, nfo) ==
    [ pc |-> "start", patterns |-> patterns, dry_run |-> dry_run,
      yt_dlp_available |-> yt_dlp_available, on_path |-> on_path, nfo |-> nfo,
      movie_files |-> <<>>, visited |-> <<>>, downloads |-> <<>> ]

\* main up to the loop
FindMovieFiles ==
    /\ batch # <<>>
    /\ batch[1].pc = "start"
    /\ batch' = << [batch[1] EXCEPT !.pc = "loop",
                                    !.movie_files = find_movie_files(batch[1].patterns)] >>
    /\ UNCHANGED << progress, extract, trailerVars, poolVars, languages, temp_dir, fs, now,
                    video_files, file_path, pc, exit_code, returned, fin, pipeVars >>

\* one turn of 'for movie in movie_files'; trailer_url is what
\* get_movie_trailer_url returns for the title
VisitMovie ==
    /\ batch # <<>>
    /\ batch[1].pc = "loop"
    /\ batch[1].movie_files # <<>>
    /\ LET b == batch[1]
           movie == Head(b.movie_files)
           movie_name == MovieName(b.nfo[movie], movie)
           seen == [b EXCEPT !.movie_files = Tail(@),
                             !.visited = Append(@, [movie |-> movie, name |-> movie_name])]
       IN  \E trailer_url \in { <<>>, << WatchUrl(<<"a">>) >> } :
              IF trailer_url = <<>> \/ b.dry_run
              THEN batch' = << seen >>
              ELSE \E ret \in DownloadOutcomes(b.yt_dlp_available, b.on_path) :
                      batch' = << [seen EXCEPT
                                     !.downloads = Append(@, [movie |-> movie, ret |-> ret]),
                                     !.pc = IF ret = "FileNotFoundError"
                                            THEN "crashed" ELSE @] >>
    /\ UNCHANGED << progress, extract, trailerVars, poolVars, languages, temp_dir, fs, now,
                    video_files, file_path, pc, exit_code, returned, fin, pipeVars >>

\* the list is exhausted: main returns
BatchEnds ==
    /\ batch # <<>>
    /\ batch[1].pc = "loop"
    /\ batch[1].movie_files = <<>>
    /\ batch' = << [batch[1] EXCEPT !.pc = "done"] >>
    /\ UNCHANGED << progress, extract, trailerVars, poolVars, languages, temp_dir, fs, now,
                    video_files, file_path, pc, exit_code, returned, fin, pipeVars >>

InitBatch ==
    /\ ConverterAtRest
    /\ tmdb = <<>>
    /\ trailer = <<>>
    /\ progress = <<>>
    /\ extract = <<>>
    /\ \E patterns \in SeqsUpTo(Patterns, MaxPatterns), dry_run \in BOOLEAN,
          yt_dlp_available \in BOOLEAN, on_path \in BOOLEAN, first \in NfoFiles :
          batch = << BatchStarted(patterns, dry_run, yt_dlp_available, on_path,
                        [m \in {MovieDir[1], MovieDir[2]} |->
                            IF m = MovieDir[1] THEN first ELSE <<>>]) >>

NextBatch == FindMovieFiles \/ VisitMovie \/ BatchEnds

SpecBatch == InitBatch /\ [][NextBatch]_vars

(***************************************************************************)
(* extract_subtitles.py: extract_subtitles.  A line of the prober's output *)
(* is a sequence of characters, '<index>' or '<index>,<language>'; the     *)
(* output directory is the set of the files written, whole or partial.     *)
(***************************************************************************)
MaxStreams == 2     \* subtitle streams the prober lists

\* the line the prober prints for a stream: lang is <<>> for no language tag
CsvLine(index, lang) ==
    << ToString(index) >> \o (IF lang = <<>> THEN <<>> ELSE << "," >> \o lang[1])

\* the prober's outputs: the subtitle streams follow the video and one audio
ProberOutputs ==
    { [i \in 1..Len(langs) |-> CsvLine(i + 1, langs[i])] :
        langs \in SeqsUpTo({ <<>>, <<ENG>>, <<POR>> }, MaxStreams) }

\* str.split(","): the pieces between the commas
RECURSIVE Split(_)
Split(line) ==
    IF \A i \in 1..Len(line) : line[i] # ","
    THEN << line >>
    ELSE LET c == CHOOSE i \in 1..Len(line) :
                     line[i] = "," /\ \A j \in 1..(i - 1) : line[j] # ","
         IN  << SubSeq(line, 1, c - 1) >> \o Split(SubSeq(line, c + 1, Len(line)))

\* os.path.join(output_dir, f"subtitle_{stream_index}_{language}.sup")
SubtitleFile(stream_info) ==
    LET stream_parts == Split(stream_info)
        stream_index == stream_parts[1]
        language == IF Len(stream_parts) > 1 THEN stream_parts[2] ELSE UNKNOWN
    IN  << "subtitle_" >> \o stream_index \o << "_" >> \o language \o << ".sup" >>

\* what a subprocess.run(..., check=True) ends in
RunOutcomes == { "ok", "CalledProcessError", "FileNotFoundError" }

\* mutation: only the first except clause
Handled_OnlyProcessError(e) == e = "CalledProcessError"

\* except subprocess.CalledProcessError / except Exception
Handled(e) == e = "CalledProcessError" \/ e \in { "FileNotFoundError", "OSError" }

\* the call ends: with an exception in the body it returns None when an
\* except clause takes it, else the exception reaches the caller
Leaves(x, e) ==
    [x EXCEPT !.pc = IF e = "" \/ Handled(e) THEN "returned" ELSE "raised",
              !.e = e]

ExtractCalled(stdout) ==
    [ pc |-> "start", stdout |-> stdout, subtitle_streams |-> <<>>,
      commands |-> <<>>, dir |-> {}, e |-> "" ]

\* os.makedirs, the prober, and the test for an empty list
ExtractProbe ==
    /\ extract # <<>>
    /\ extract[1].pc = "start"
    /\ \/ extract' = << Leaves(extract[1], "OSError") >>
       \/ \E e \in RunOutcomes \ {"ok"} : extract' = << Leaves(extract[1], e) >>
       \/ IF extract[1].stdout = <<>>
          THEN extract' = << Leaves(extract[1], "") >>
          ELSE extract' = << [extract[1] EXCEPT !.pc = "loop",
                                                !.subtitle_streams = extract[1].stdout] >>
    /\ UNCHANGED << progress, batch, trailerVars, poolVars, languages, temp_dir, fs, now,
                    video_files, file_path, pc, exit_code, returned, fin, pipeVars >>

\* one turn of 'for stream_info in subtitle_streams': the transcoder writes
\* the file, or fails leaving nothing or a partial file
ExtractStream ==
    /\ extract # <<>>
    /\ extract[1].pc = "loop"
    /\ extract[1].subtitle_streams # <<>>
    /\ LET x == extract[1]
           stream_info == Head(x.subtitle_streams)
           output_file == SubtitleFile(stream_info)
           index == Split(stream_info)[1]
           run == [x EXCEPT !.subtitle_streams = Tail(@),
                            !.commands = Append(@, [map |-> index, output |-> output_file])]
       IN  \E outcome \in RunOutcomes :
              IF outcome = "ok"
              THEN extract' = << [run EXCEPT
                                    !.dir = @ \cup {[name |-> output_file, whole |-> TRUE]}] >>
              ELSE \E partial \in BOOLEAN :
                      extract' = << Leaves(
                          [run EXCEPT !.dir =
                              IF partial /\ outcome = "CalledProcessError"
                              THEN @ \cup {[name |-> output_file, whole |-> FALSE]}
                              ELSE @], outcome) >>
    /\ UNCHANGED << progress, batch, trailerVars, poolVars, languages, temp_dir, fs, now,
                    video_files, file_path, pc, exit_code, returned, fin, pipeVars >>

\* the list is exhausted: the function returns
ExtractEnds ==
    /\ extract # <<>>
    /\ extract[1].pc = "loop"
    /\ extract[1].subtitle_streams = <<>>
    /\ extract' = << Leaves(extract[1], "") >>
    /\ UNCHANGED << progress, batch, trailerVars, poolVars, languages, temp_dir, fs, now,
                    video_files, file_path, pc, exit_code, returned, fin, pipeVars >>

InitExtract ==
    /\ ConverterAtRest
    /\ tmdb = <<>>
    /\ trailer = <<>>
    /\ progress = <<>>
    /\ batch = <<>>
    /\ extract \in { << ExtractCalled(stdout) >> : stdout \in ProberOutputs }

NextExtract == ExtractProbe \/ ExtractStream \/ ExtractEnds

SpecExtract == InitExtract /\ [][NextExtract]_vars

(***************************************************************************)
(* Vocabulary of the properties                                            *)
(***************************************************************************)
InSeq(x, seq) == \E j \in 1..Len(seq) : seq[j] = x

\* process_file has taken its decision for the current file
Decided == file_path # <<>> /\ pc # "probed"

\* ... and got past the language filter
Filtered == Decided /\ probe.audio # <<>>

\* ... and issued a command for it
CmdIssued == Decided /\ cmds # <<>> /\ LastCmd.input = file_path[1]

ConvertIssued == CmdIssued /\ LastCmd.is_encoding

\* the flags of the first output audio stream
MainOpt == OptionFor(LastCmd, 0)

AllowList == DesiredLanguages(languages)

\* the title names a commentary, in the words of the specification
TitleSaysCommentary(s) ==
    \/ Contains(COMMENTARY, s.title)
    \/ Contains(COMENTARIO_ACCENT, s.title)
    \/ Contains(COMENTARIO, s.title)
    \/ Contains(DIRECTOR, s.title)

\* no audio stream of the file is in a known desired language
NoKnownDesiredAudio ==
    \A i \in 1..Len(probe.audio) :
        probe.audio[i].language \notin (AllowList \ {UNKNOWN, UND})

\* the k-th mapped stream of the command is stream s, stream-copied
MappedAsCopy(cmd, s) ==
    \E k \in 1..Len(cmd.map) :
        cmd.map[k] = s.index /\ OptionFor(cmd, k - 1).codec = COPY

(***************************************************************************)
(* C1: for every channel count of the stream chosen for conversion, the    *)
(* bitrate passed to the encoder is the one of the table (1536 kbps from   *)
(* 7 channels on, 768 at 6, 640 from 3 to 5, 448 up to 2), which           *)
(* process_file computes as target_bitrate.                                *)
(***************************************************************************)
C1_EncoderBitrateMatchesTable ==
    ConvertIssued =>
        /\ BitrateKbps(MainOpt.bitrate) = target_bitrate
        /\ target_bitrate =
             (IF best_stream[1].channels >= 7 THEN 1536
              ELSE IF best_stream[1].channels = 6 THEN 768
              ELSE IF best_stream[1].channels >= 3 THEN 640
              ELSE 448)

(***************************************************************************)
(* C2: the encode bitrate is monotonic in the channel count: the bitrate   *)
(* of an issued conversion is at least the one chosen for any smaller      *)
(* channel count (0 included) and at most the one chosen for any larger.   *)
(***************************************************************************)
C2_BitrateMonotonic ==
    ConvertIssued =>
        LET c == best_stream[1].channels
            b == BitrateKbps(MainOpt.bitrate)
        IN  /\ \A c1 \in 0..c : BitrateKbps(ConvertBitrate(c1)) <= b
            /\ \A c2 \in c..MaxChannels : b <= BitrateKbps(ConvertBitrate(c2))

C2_Witness ==
    /\ ConvertIssued
    /\ best_stream[1].channels = 7
    /\ MainOpt.bitrate = "768k"

(***************************************************************************)
(* C3: a commentary-titled audio stream is never dropped: it is in the     *)
(* audio set after the language filter whatever its language, and every    *)
(* command issued for the file maps it as a stream copy.                   *)
(***************************************************************************)
C3_CommentaryKept ==
    Filtered =>
        \A i \in 1..Len(probe.audio) :
            TitleSaysCommentary(probe.audio[i]) =>
                /\ InSeq(probe.audio[i], audio_streams)
                /\ CmdIssued => MappedAsCopy(LastCmd, probe.audio[i])

C3_Witness ==
    /\ ConvertIssued
    /\ ~NoKnownDesiredAudio
    /\ \E i \in 1..Len(probe.audio) :
          /\ TitleSaysCommentary(probe.audio[i])
          /\ probe.audio[i].language \notin AllowList
          /\ MappedAsCopy(LastCmd, probe.audio[i])

(***************************************************************************)
(* C4: a commentary stream is never the primary stream; a file whose       *)
(* retained audio streams are all commentaries is skipped: no command, the *)
(* file as it was.                                                         *)
(***************************************************************************)
C4_CommentaryNeverPrimary ==
    /\ best_stream # <<>> => ~TitleSaysCommentary(best_stream[1])
    /\ (Filtered /\ \A i \in 1..Len(audio_streams) :
                        TitleSaysCommentary(audio_streams[i]))
         => /\ best_stream = <<>>
            /\ ~CmdIssued
            /\ returned = << FALSE >>
            /\ Probe(fs, file_path[1]) = probe

C4_Witness ==
    /\ CmdIssued
    /\ best_stream # <<>>
    /\ TitleSaysCommentary(audio_streams[1])
    /\ best_stream[1] = audio_streams[2]

C4_WitnessOnlyCommentary ==
    /\ Filtered
    /\ \A i \in 1..Len(audio_streams) : TitleSaysCommentary(audio_streams[i])
    /\ returned = << FALSE >>

(***************************************************************************)
(* C5: if no audio stream of the file has a language of the allow-list     *)
(* other than 'unknown'/'und', the audio streams after the filtering step  *)
(* are the original ones.                                                  *)
(***************************************************************************)
C5_NoKnownLanguageKeepsAudio ==
    (Filtered /\ NoKnownDesiredAudio) => audio_streams = probe.audio

C5_Witness ==
    /\ Filtered
    /\ NoKnownDesiredAudio
    /\ audio_streams = probe.audio
    /\ \E i \in 1..Len(probe.audio) : probe.audio[i].language \notin AllowList
    /\ \E i \in 1..Len(probe.audio) : probe.audio[i].language = UNKNOWN

(***************************************************************************)
(* C6, as stated: when no audio stream matches a known desired language    *)
(* the filtering is skipped entirely: no audio and no subtitle stream is   *)
(* removed and needs_language_filtering is false.                          *)
(***************************************************************************)
C6_FilteringSkippedEntirely ==
    (Filtered /\ NoKnownDesiredAudio) =>
        /\ audio_streams = probe.audio
        /\ subtitle_streams = probe.subs
        /\ ~needs_language_filtering

(***************************************************************************)
(* C6, amended: when no audio stream matches a known desired language no   *)
(* audio stream is removed; the subtitle streams are still filtered by the *)
(* allow-list, and needs_language_filtering is true exactly when a         *)
(* subtitle stream has a language outside the allow-list.                  *)
(***************************************************************************)
C6_OnlyAudioFilterSkipped ==
    (Filtered /\ NoKnownDesiredAudio) =>
        /\ audio_streams = probe.audio
        /\ \A i \in 1..Len(probe.subs) :
              InSeq(probe.subs[i], subtitle_streams)
                  <=> probe.subs[i].language \in AllowList
        /\ needs_language_filtering
              <=> \E i \in 1..Len(probe.subs) : probe.subs[i].language \notin AllowList

C6_Witness ==
    /\ CmdIssued
    /\ NoKnownDesiredAudio
    /\ audio_streams = probe.audio
    /\ Len(subtitle_streams) < Len(probe.subs)
    /\ needs_language_filtering
    /\ AllAc3(audio_streams)

(***************************************************************************)
(* C7: a stream, audio or subtitle, whose language tag is missing, empty   *)
(* or 'und' in any letter case has language 'unknown', and it is retained  *)
(* by the language filter whenever the allow-list contains 'unknown'.      *)
(***************************************************************************)
RawUnknown(raw) ==
    \/ "language" \notin DOMAIN raw.tags
    \/ raw.tags["language"] = EMPTY
    \/ Lower(raw.tags["language"]) = UND

C7_UnknownNormalisedAndKept ==
    file_path # <<>> /\ Exists(fs, file_path[1]) /\ Probe(fs, file_path[1]) = probe =>
        LET raw == fs[file_path[1]]
        IN  /\ \A i \in 1..Len(raw.audio) :
                  RawUnknown(raw.audio[i]) =>
                      /\ probe.audio[i].language = UNKNOWN
                      /\ (Filtered /\ UNKNOWN \in AllowList)
                            => InSeq(probe.audio[i], audio_streams)
            /\ \A i \in 1..Len(raw.subs) :
                  RawUnknown(raw.subs[i]) =>
                      /\ probe.subs[i].language = UNKNOWN
                      /\ (Filtered /\ UNKNOWN \in AllowList)
                            => InSeq(probe.subs[i], subtitle_streams)

C7_Witness ==
    /\ Filtered
    /\ UNKNOWN \in AllowList
    /\ ~NoKnownDesiredAudio
    /\ \E i \in 1..Len(probe.audio) :
          /\ "language" \in DOMAIN fs[file_path[1]].audio[i].tags
          /\ fs[file_path[1]].audio[i].tags["language"] = <<"U","n","d">>
          /\ InSeq(probe.audio[i], audio_streams)

C7_WitnessSubtitle ==
    /\ Filtered
    /\ UNKNOWN \in AllowList
    /\ \E i \in 1..Len(probe.subs) :
          /\ "language" \in DOMAIN fs[file_path[1]].subs[i].tags
          /\ fs[file_path[1]].subs[i].tags["language"] = EMPTY
          /\ InSeq(probe.subs[i], subtitle_streams)

(***************************************************************************)
(* C8: for every caller-supplied language list, a stream whose language    *)
(* normalises to 'unknown' is never removed by the language filter, also   *)
(* when the list names neither 'unknown' nor 'und'.                        *)
(***************************************************************************)
C8_UnknownAlwaysKept ==
    (Filtered /\ languages # <<>>) =>
        /\ \A i \in 1..Len(probe.audio) :
              probe.audio[i].language = UNKNOWN => InSeq(probe.audio[i], audio_streams)
        /\ \A i \in 1..Len(probe.subs) :
              probe.subs[i].language = UNKNOWN => InSeq(probe.subs[i], subtitle_streams)

(***************************************************************************)
(* Vocabulary of the properties of _finalize_output                        *)
(***************************************************************************)
\* _finalize_output has returned ok for the current file
Finalized(ok) == pc = "idle" /\ returned = << ok >> /\ fin.backup_file # <<>>

\* the file system as the call found it
Entry == fin.entry

(***************************************************************************)
(* C9: when _finalize_output returns True, on the rename path and on the   *)
(* copy path alike, the backup path holds the original content, the        *)
(* original path holds the converted content, the intermediate converted   *)
(* file no longer exists, and the backup is the only path added.           *)
(***************************************************************************)
C9_SuccessLeavesBackupAndReplacedOriginal ==
    Finalized(TRUE) =>
        /\ Exists(fs, BackupFile)
        /\ fs[BackupFile] = Entry[OriginalFile]
        /\ Exists(fs, OriginalFile)
        /\ fs[OriginalFile] = Transcode(LastCmd, Entry[OriginalFile])
        /\ ~Exists(fs, OutputFile)
        /\ DOMAIN fs = (DOMAIN Entry \ {OutputFile}) \cup {BackupFile}
        /\ \A q \in DOMAIN fs \ {OriginalFile, BackupFile} : fs[q] = Entry[q]

C9_Witness == Finalized(TRUE) /\ CopiesBack /\ Exists(fs, BackupFile)

C9_WitnessRename == Finalized(TRUE) /\ ~CopiesBack /\ Exists(fs, BackupFile)

(***************************************************************************)
(* C10: when _finalize_output returns False, whichever step failed (the    *)
(* rename to the backup, the copy from the temp directory at any chunk,    *)
(* the rename of the converted file, the removal of the temp file), the    *)
(* original path holds the original content and no backup made by the call *)
(* remains.                                                                *)
(***************************************************************************)
C10_FailureRestoresOriginal ==
    (Finalized(FALSE) /\ ~fin.restore_e) =>
        /\ Exists(fs, OriginalFile)
        /\ fs[OriginalFile] = Entry[OriginalFile]
        /\ Exists(fs, BackupFile) => (Exists(Entry, BackupFile)
                                        /\ fs[BackupFile] = Entry[BackupFile])

(***************************************************************************)
(* C11: when the transcoder exits with a nonzero code, or leaves no output *)
(* file, or leaves an output file of zero bytes, _run_ffmpeg_with_progress *)
(* returns False, _finalize_output is not entered for the file, and the    *)
(* original file keeps its path and content while no backup path appears:  *)
(* the only path that may have changed is the output path.                 *)
(***************************************************************************)
\* the result check of _run_ffmpeg_with_progress fails on these files
FfmpegFailure(code, files, output) ==
    \/ code # << 0 >>
    \/ ~Exists(files, output)
    \/ files[output].size = 0

C11_FfmpegFailureLeavesOriginal ==
    [][ (pc = "ffmpeg" /\ pc' # "ffmpeg" /\ FfmpegFailure(exit_code', fs', OutputFile))
          => /\ returned' = << FALSE >>
             /\ pc' = "idle"
             /\ fin' = NoFinalize
             /\ Exists(fs', OriginalFile)
             /\ fs'[OriginalFile] = fs[OriginalFile]
             /\ \A p \in (DOMAIN fs \cup DOMAIN fs') \ {OutputFile} :
                    /\ p \in DOMAIN fs /\ p \in DOMAIN fs'
                    /\ fs'[p] = fs[p] ]_vars

\* the transcoder has just failed in one of the three ways on the current file
C11_Witness ==
    /\ pc = "idle" /\ returned = << FALSE >> /\ cmds # <<>>
    /\ LastCmd.input = OriginalFile
    /\ fin = NoFinalize
    /\ exit_code = << 0 >>
    /\ Exists(fs, OutputFile) /\ fs[OutputFile].size = 0
    /\ Exists(fs, OriginalFile)

C11_WitnessExitCode ==
    /\ pc = "idle" /\ returned = << FALSE >> /\ cmds # <<>>
    /\ LastCmd.input = OriginalFile
    /\ exit_code = << 1 >>
    /\ ~Exists(fs, BackupPath(OriginalFile, now))

(***************************************************************************)
(* C12: when any of the four prober outputs for a file is empty or is not  *)
(* valid JSON, get_stream_info treats that output as empty (no streams,    *)
(* duration 0, the default frame rate) and process_file issues no          *)
(* transcoder command for the file, which therefore stays as it was.       *)
(***************************************************************************)
C12_MalformedProbeSkipsFile ==
    (file_path # <<>> /\ pc \in {"probed", "ffmpeg"} /\ Exists(fs, OriginalFile)) =>
        LET bad == fs[OriginalFile].bad
        IN  /\ "audio" \in bad => probe.audio = <<>>
            /\ "subs" \in bad => probe.subs = <<>>
            /\ "format" \in bad => probe.duration = 0
            /\ "fps" \in bad => probe.fps = DefaultFps
            /\ bad # {} => pc # "ffmpeg"

(***************************************************************************)
(* Vocabulary of the properties of the pool                                *)
(***************************************************************************)
\* the workers that are executing a process_file call
Executing == { w \in DOMAIN workers : Busy(w) }

\* the workers whose call has started a transcoder
Transcoding == { w \in DOMAIN workers : workers[w].cmd # <<>> }

\* the paths the call of worker w reads or writes
TaskFiles(w) ==
    { workers[w].file[1], workers[w].cmd[1].output, workers[w].progress_file[1] }
        \cup { workers[w].backup_file[i] : i \in DOMAIN workers[w].backup_file }

PoolTerminated == video_files = <<>> /\ Executing = {}

(***************************************************************************)
(* C13: two process_file calls that run at the same time on distinct files *)
(* use distinct converted-output paths, distinct progress files and        *)
(* distinct backup paths, with or without a temp directory, and no path    *)
(* one of them reads or writes is a path of the other.                     *)
(***************************************************************************)
C13_TasksShareNoPath ==
    \A v, w \in Transcoding :
        (v # w /\ workers[v].file # workers[w].file) =>
            /\ workers[v].cmd[1].output # workers[w].cmd[1].output
            /\ workers[v].progress_file # workers[w].progress_file
            /\ (workers[v].backup_file # <<>> /\ workers[w].backup_file # <<>>)
                  => workers[v].backup_file # workers[w].backup_file
            /\ TaskFiles(v) \cap TaskFiles(w) = {}

(***************************************************************************)
(* C14: at every moment at most max_parallel process_file calls are        *)
(* executing, and with max_parallel = 1 a file is handed to process_file   *)
(* only when no other call is executing.                                   *)
(***************************************************************************)
C14_AtMostMaxParallelTasks ==
    /\ [](Cardinality(Executing) <= max_parallel)
    /\ [][ (max_parallel = 1 /\ handed' # handed) => Executing = {} ]_vars

\* the pool is full and a file is waiting
C14_Witness ==
    /\ max_parallel = 2
    /\ Cardinality(Executing) = 2
    /\ video_files # <<>>

C14_WitnessSequential ==
    /\ max_parallel = 1
    /\ Len(handed) = 2
    /\ Cardinality(Executing) = 1

(***************************************************************************)
(* C15: in the sequential and in the pooled mode, whatever calls fail (a   *)
(* probe that returns nothing, a failed transcode, a failed finalize), no  *)
(* file is handed to process_file twice, and the run ends with every       *)
(* enumerated file handed to process_file and no call left executing.      *)
(***************************************************************************)
Enumerated == DOMAIN PoolLibraryBad

HandedSet == { handed[i] : i \in DOMAIN handed }

PairLeq(a, b) ==
    \/ a.channels < b.channels
    \/ a.channels = b.channels /\ a.bitrate <= b.bitrate

TargetFamily(s) == s.codec \in {AC3, EAC3}

\* the retained audio streams whose title does not name a commentary
Candidates ==
    { audio_streams[i] : i \in { k \in DOMAIN audio_streams :
                                    ~TitleSaysCommentary(audio_streams[k]) } }

C16_PrimaryStreamSelection ==
    best_stream # <<>> =>
        LET best == best_stream[1]
        IN  /\ best \in Candidates
            /\ IF \E s \in Candidates : TargetFamily(s)
               THEN /\ TargetFamily(best)
                    /\ \A s \in Candidates : TargetFamily(s) => PairLeq(s, best)
               ELSE \A s \in Candidates : PairLeq(s, best)

\* an ac3 stream was chosen though another stream has more channels
C16_Witness ==
    /\ best_stream # <<>>
    /\ TargetFamily(best_stream[1])
    /\ \E s \in Candidates : ~TargetFamily(s) /\ s.channels > best_stream[1].channels

\* two streams of the target family with equal channels: the bitrate decides
C16_WitnessTie ==
    /\ best_stream # <<>>
    /\ \E s \in Candidates :
          /\ TargetFamily(s) /\ s.channels = best_stream[1].channels
          /\ s.bitrate < best_stream[1].bitrate

(***************************************************************************)
(* C17: once a successful finalize has created a backup of a file, the     *)
(* backup path holds the original content from then on: nothing in the     *)
(* same run or in a later run over the directory deletes, renames,         *)
(* overwrites or re-encodes it.                                            *)
(***************************************************************************)
\* _finalize_output has just returned True for the library's file, with
\* the backup made at second t
BackedUp(t) ==
    /\ Finalized(TRUE)
    /\ OriginalFile = Movie
    /\ BackupFile = BackupPath(Movie, t)

BackupKept(t) ==
    /\ Exists(fs, BackupPath(Movie, t))
    /\ fs[BackupPath(Movie, t)] = RerunLibrary[Movie]

\* no call of _finalize_output for the library's file is under way
FinalizeOver ==
    ~(pc \in {"finalize", "fin_open", "fin_copy", "fin_rename", "fin_except"}
      /\ OriginalFile = Movie)

\* the converted file stands in the original's place, with backup t kept
Swapped(t) ==
    /\ FinalizeOver
    /\ BackupKept(t)
    /\ Exists(fs, Movie)
    /\ cmds # <<>>
    /\ cmds[1].input = Movie
    /\ fs[Movie] = Transcode(cmds[1], RerunLibrary[Movie])

C17_BackupRetained ==
    [][\A t \in 0..MaxTime : Swapped(t) => BackupKept(t)']_vars

(***************************************************************************)
(* C18: the command that converts the primary stream passes an explicit    *)
(* channel count of 6 when the source stream has 6 channels or more, of 2  *)
(* when it has 2 or fewer (0 for an unknown count, and mono, included),    *)
(* and passes no channel flag when it has 3, 4 or 5 channels.              *)
(***************************************************************************)
\* ac = 0 stands for a command without the -ac:a:0 flag
C18_ExplicitChannelCount ==
    ConvertIssued =>
        LET channels == best_stream[1].channels
        IN  /\ MainOpt.sel = 0
            /\ channels >= 6 => MainOpt.ac = 6
            /\ channels <= 2 => MainOpt.ac = 2
            /\ (3 <= channels /\ channels <= 5) => MainOpt.ac = 0

\* a conversion of a 3-, 4- or 5-channel stream, without the flag
C18_Witness ==
    /\ ConvertIssued
    /\ best_stream[1].channels \in 3..5
    /\ MainOpt.ac = 0

\* a conversion of a 7.1 stream, downmixed, and of a mono stream
C18_WitnessDownmix == ConvertIssued /\ best_stream[1].channels >= 7 /\ MainOpt.ac = 6

C18_WitnessMono == ConvertIssued /\ best_stream[1].channels = 1 /\ MainOpt.ac = 2

(***************************************************************************)
(* C19: within one run no two transcoder processes are started for the     *)
(* same input file, and a file that process_file has been given, whether   *)
(* its transcode or its finalize failed or not, is not in the list of      *)
(* files still to be processed.                                            *)
(***************************************************************************)
C19_NoRetries ==
    /\ \A i, j \in DOMAIN cmds : cmds[i].input = cmds[j].input => i = j
    /\ \A i, j \in DOMAIN video_files : video_files[i] = video_files[j] => i = j
    /\ \A i \in DOMAIN cmds : ~InSeq(cmds[i].input, video_files)
    /\ file_path # <<>> => ~InSeq(file_path[1], video_files)

\* the run is over; the first file's transcode failed, the second file's
\* finalize failed, and each got one command
C19_Witness ==
    /\ pc = "idle" /\ video_files = <<>>
    /\ Len(cmds) = 2
    /\ Finalized(FALSE)
    /\ Exists(fs, cmds[1].input) /\ fs[cmds[1].input] = Entry[cmds[1].input]
    /\ ~Exists(Entry, BackupPath(cmds[1].input, 0))
    /\ ~Exists(Entry, BackupPath(cmds[1].input, 1))

(***************************************************************************)
(* C20: get_movie_trailer_url never raises.  It returns None when the      *)
(* search request or its parsing fails, when the search has no results,    *)
(* when the first result has no id, when the videos request or its         *)
(* parsing fails, when an entry that cannot be read comes before every     *)
(* qualifying entry, or when no entry qualifies.  In every other case it   *)
(* returns the watch URL of the first entry, in the order of the videos    *)
(* response of the first search result, whose type is 'Trailer', whose     *)
(* site is 'YouTube' and whose key is not empty.                           *)
(***************************************************************************)
Api == tmdb[1]

SearchList == IF Api.search.results = <<>> THEN <<>> ELSE Api.search.results[1]

SearchFails == Api.search.status # "ok"

NoFirstId == SearchList = <<>> \/ SearchList[1].id = 0

FirstVideos == Api.videos[SearchList[1].id]

VideoList == IF FirstVideos.results = <<>> THEN <<>> ELSE FirstVideos.results[1]

Qualifying ==
    { i \in DOMAIN VideoList :
        /\ VideoList[i].object
        /\ VideoList[i].type = "Trailer"
        /\ VideoList[i].site = "YouTube"
        /\ Len(VideoList[i].key) > 0 }

FirstQualifying == CHOOSE i \in Qualifying : \A j \in Qualifying : i <= j

\* an entry that is not an object is reached before the function returns
UnreadableEntry ==
    \E i \in DOMAIN VideoList :
        /\ ~VideoList[i].object
        /\ \A j \in Qualifying : i < j

ExpectNone ==
    \/ SearchFails
    \/ NoFirstId
    \/ FirstVideos.status # "ok"
    \/ UnreadableEntry
    \/ Qualifying = {}

C20_TrailerLookup ==
    trailer # <<>> =>
        /\ trailer[1].kind = "return"
        /\ IF ExpectNone
           THEN trailer[1].value = <<>>
           ELSE trailer[1].value = << << WATCH >> \o VideoList[FirstQualifying].key >>

\* a URL was returned although an earlier entry qualifies in all but its site
C20_Witness ==
    /\ trailer # <<>>
    /\ ~ExpectNone
    /\ FirstQualifying = 2
    /\ VideoList[1].type = "Trailer" /\ VideoList[1].site = "Vimeo"
    /\ VideoList[1].key # <<>>
    /\ trailer[1].value = << << WATCH >> \o VideoList[2].key >>

\* two entries qualify and the first one's URL was returned
C20_WitnessFirstOfTwo ==
    /\ trailer # <<>>
    /\ ~ExpectNone
    /\ Cardinality(Qualifying) = 2
    /\ VideoList[1].key # VideoList[2].key
    /\ trailer[1].value = << << WATCH >> \o VideoList[1].key >>

\* the videos request failed and None was returned
C20_WitnessRequestFails ==
    /\ trailer # <<>>
    /\ ~SearchFails /\ ~NoFirstId
    /\ FirstVideos.status = "HTTPError"
    /\ trailer[1] = [kind |-> "return", value |-> <<>>]

\* the second search result has videos, the first has no id: None
C20_WitnessFirstResultOnly ==
    /\ trailer # <<>>
    /\ ~SearchFails
    /\ Len(SearchList) = 2 /\ SearchList[1].id = 0 /\ SearchList[2].id = 8
    /\ trailer[1].value = <<>>

(***************************************************************************)
(* C21: the audio streams an issued command maps are the chosen primary    *)
(* stream followed by the retained commentary tracks in container order,   *)
(* and nothing else: every other non-commentary audio stream is left out,  *)
(* also when its language is in the allow-list.  A conversion command      *)
(* re-encodes output audio stream 0, the primary one, to eac3 and gives    *)
(* commentary track k the flag -c:a:k copy; a keep command copies all.     *)
(***************************************************************************)
\* the indexes of the retained streams with a commentary title, in order
RetainedCommentaryIndexes ==
    LET Titled(s) == TitleSaysCommentary(s)
        kept == SelectSeq(audio_streams, Titled)
    IN  [k \in 1..Len(kept) |-> kept[k].index]

\* the audio part of the -map flags of the last command
AudioMap == SubSeq(LastCmd.map, 1, Len(LastCmd.map) - Len(subtitle_streams))

\* the option carrying the stream specifier k, if the command has exactly one
HasExplicitOpt(cmd, k, codec) ==
    /\ Cardinality({i \in 1..Len(cmd.audio_opts) : cmd.audio_opts[i].sel = k}) = 1
    /\ \A i \in 1..Len(cmd.audio_opts) :
          cmd.audio_opts[i].sel = k => cmd.audio_opts[i].codec = codec

C21_WitnessDropped ==
    /\ CmdIssued
    /\ Len(audio_streams) = 2
    /\ \A i \in 1..2 : /\ ~TitleSaysCommentary(audio_streams[i])
                       /\ audio_streams[i].language \in AllowList \ {UNKNOWN}
    /\ Len(AudioMap) = 1

(***************************************************************************)
(* C22: a file with a retained non-commentary audio stream gets a command  *)
(* exactly when the language filter removed an audio or a subtitle stream, *)
(* or the primary stream is neither ac3 nor eac3, or more than one audio   *)
(* stream is retained and one of them is neither ac3 nor eac3.  Otherwise  *)
(* process_file returns False with no command issued, also when the file   *)
(* carries several non-commentary audio streams.                           *)
(***************************************************************************)
HasPlainAudio ==
    \E i \in 1..Len(audio_streams) : ~TitleSaysCommentary(audio_streams[i])

StreamRemoved ==
    \/ Len(audio_streams) < Len(probe.audio)
    \/ Len(subtitle_streams) < Len(probe.subs)

WorthProcessing ==
    \/ StreamRemoved
    \/ best_stream[1].codec \notin {AC3, EAC3}
    \/ /\ Len(audio_streams) > 1
       /\ \E i \in 1..Len(audio_streams) : audio_streams[i].codec \notin {AC3, EAC3}

C22_ProcessedIffNeeded ==
    (Filtered /\ HasPlainAudio) =>
        /\ CmdIssued <=> WorthProcessing
        /\ ~WorthProcessing => (cmds = <<>> /\ returned = << FALSE >> /\ pc = "idle")

\* skipped as already optimal with two non-commentary streams
C22_Witness ==
    /\ Filtered
    /\ best_stream # <<>>
    /\ ~WorthProcessing
    /\ Len(audio_streams) = 2
    /\ \A i \in 1..2 : ~TitleSaysCommentary(audio_streams[i])
    /\ returned = << FALSE >>
    /\ cmds = <<>>

\* processed only because a subtitle stream was removed
C22_WitnessFilterOnly ==
    /\ CmdIssued
    /\ Len(subtitle_streams) < Len(probe.subs)
    /\ audio_streams = probe.audio
    /\ \A i \in 1..Len(audio_streams) : audio_streams[i].codec \in {AC3, EAC3}

\* processed because a retained commentary is neither ac3 nor eac3
C22_WitnessMixed ==
    /\ CmdIssued
    /\ ~StreamRemoved
    /\ best_stream[1].codec \in {AC3, EAC3}
    /\ Len(audio_streams) = 2

(***************************************************************************)
(* C23: once the library's file has been replaced by the output of the     *)
(* command process_file issued for it (its backup holds the content the    *)
(* command read, the file itself the streams the command mapped), no       *)
(* further command is issued for the file: a later process_file on it      *)
(* skips it, so no second backup of it is made.                            *)
(***************************************************************************)
\* the file at the library path is what the first command made of a backup
ReplacedFile ==
    /\ cmds # <<>>
    /\ cmds[1].input = Movie
    /\ Exists(fs, Movie)
    /\ \E t \in 0..MaxTime :
          /\ Exists(fs, BackupPath(Movie, t))
          /\ fs[Movie] = Transcode(cmds[1], fs[BackupPath(Movie, t)])

CommandsFor(p) == { i \in DOMAIN cmds : cmds[i].input = p }

C23_ProcessingIdempotent ==
    ReplacedFile => Cardinality(CommandsFor(Movie)) <= 1

(***************************************************************************)
(* C24: the rename that makes a backup never has an existing file as its   *)
(* target: the backup paths computed for two distinct original files of    *)
(* one run differ, also for two files of one directory whose stems differ  *)
(* only by trailing '_old' and which are finalized within one second, so   *)
(* no earlier backup and no other file is overwritten.                     *)
(***************************************************************************)
\* the step of _finalize_output that renames the original to its backup
MakesBackup == pc = "finalize" /\ fs' # fs

C24_BackupPathsNeverCollide ==
    [][MakesBackup => ~Exists(fs, BackupPath(OriginalFile, now))]_vars

(***************************************************************************)
(* C25: the subtitle streams an issued command maps are the subtitle       *)
(* streams of the file whose language, normalised (lower case; missing,    *)
(* empty and 'und' read as 'unknown'), is in the allow-list, in container  *)
(* order, by their container indexes, and the command copies them          *)
(* (-c:s copy): none in the allow-list is left out, none outside it is     *)
(* mapped.                                                                 *)
(***************************************************************************)
RawFile == fs[file_path[1]]

NormalisedLanguage(raw) ==
    IF RawUnknown(raw) THEN UNKNOWN ELSE Lower(raw.tags["language"])

AllowedSubIndexes ==
    LET Allowed(raw) == NormalisedLanguage(raw) \in AllowList
        kept == SelectSeq(RawFile.subs, Allowed)
    IN  [k \in 1..Len(kept) |-> kept[k].index]

\* the -map flags of the last command that name a subtitle stream of the file
SubMap ==
    LET IsSub(idx) == \E i \in 1..Len(RawFile.subs) : RawFile.subs[i].index = idx
    IN  SelectSeq(LastCmd.map, IsSub)

C25_WitnessDropped ==
    /\ CmdIssued
    /\ Len(RawFile.subs) = 1
    /\ NormalisedLanguage(RawFile.subs[1]) \notin AllowList
    /\ SubMap = <<>>

(***************************************************************************)
(* C26: when process_file has returned, with True or with False (the       *)
(* transcoder exited with an error, left no or an empty output, could not  *)
(* be started, or the finalize failed), the converted-output path          *)
(* '<stem>_converted' computed for the file does not exist, in the temp    *)
(* directory or in the library, so that no later walk of the directory     *)
(* finds a leftover output.                                                *)
(***************************************************************************)
ProcessFileReturned == file_path # <<>> /\ pc = "idle" /\ returned # <<>>

C26_NoIntermediateArtefacts ==
    ProcessFileReturned =>
        /\ ~Exists(fs, get_output_path(temp_dir, file_path[1]))
        /\ get_output_path(temp_dir, file_path[1]) \notin rglob(fs)

(***************************************************************************)
(* C27: while the transcoder is running the percentage of the progress     *)
(* line is at least 0 and at most 99, for every output size and every      *)
(* expected size, 0 included; neither the percentage nor the ETA is        *)
(* computed by a division by zero; and the line '100%' is printed only     *)
(* once the process has exited with code 0.                                *)
(***************************************************************************)
Running == progress # <<>> /\ progress[1].returncode = <<>>

C27_ProgressWithinBounds ==
    progress # <<>> =>
        LET p == progress[1]
        IN  /\ p.percent.error = ""
            /\ p.eta.remaining.error = ""
            /\ p.percent.den > 0
            /\ 0 <= p.percent.num
            /\ p.percent.num <= 99 * p.percent.den
            /\ p.shown = "100% - Complete!" => p.returncode = << 0 >>
            /\ p.returncode = << 1 >> => p.shown = "FAILED!"

\* the output has outgrown the expected size: the percentage is capped
C27_Witness ==
    /\ Running
    /\ progress[1].current # <<>>
    /\ progress[1].current[1] > progress[1].expected_size
    /\ progress[1].expected_size > 0
    /\ progress[1].percent = Float(99, 1)
    /\ progress[1].eta.text = "eta"

\* an expected size of 0 with a growing output: the percentage stays 0
C27_WitnessZeroExpected ==
    /\ Running
    /\ progress[1].expected_size = 0
    /\ progress[1].current # <<>>
    /\ progress[1].current[1] > 0
    /\ progress[1].percent = Float(0, 1)

\* the clock has not advanced: no ETA is computed
C27_WitnessNoElapsed ==
    /\ Running
    /\ progress[1].elapsed = 0
    /\ progress[1].eta.text = "Calculating..."

(***************************************************************************)
(* C28: the loop of download_trailers visits the files matched by some     *)
(* pattern, each once, in the order of their first match (pattern by       *)
(* pattern, directory order within a pattern); the title used for a file   *)
(* is the stripped originaltitle of its .nfo when the .nfo exists, parses  *)
(* and has one with text, else the file's stem; the loop is not stopped by *)
(* a movie without trailer or by a download that fails: it ends only when  *)
(* every file has been visited; and with --dry-run no download is started. *)
(***************************************************************************)
Batch == batch[1]

\* the files in the order the loop takes them: those visited, those to come
BatchOrder ==
    [i \in 1..Len(Batch.visited) |-> Batch.visited[i].movie] \o Batch.movie_files

DirIndex(file) == CHOOSE i \in 1..Len(MovieDir) : MovieDir[i] = file

Matching(file) == { k \in 1..Len(Batch.patterns) : Matches(Batch.patterns[k], file) }

FirstMatch(file) == CHOOSE k \in Matching(file) : \A l \in Matching(file) : k <= l

ComesBefore(f, g) ==
    \/ FirstMatch(f) < FirstMatch(g)
    \/ FirstMatch(f) = FirstMatch(g) /\ DirIndex(f) < DirIndex(g)

\* the text of the .nfo's originaltitle, <<>> when there is none to read
NfoOriginalTitle(nfo) ==
    IF nfo = <<>> THEN <<>>
    ELSE IF ~nfo[1].parseable THEN <<>>
    ELSE IF nfo[1].root_title # <<>> THEN nfo[1].root_title
    ELSE nfo[1].movie_title

TitleFor(file) ==
    LET text == NfoOriginalTitle(Batch.nfo[file])
    IN  IF text # <<>> /\ Strip(text[1]) # <<>> THEN Strip(text[1]) ELSE file.stem

BatchEnumeration ==
    /\ \A i, j \in 1..Len(BatchOrder) : BatchOrder[i] = BatchOrder[j] => i = j
    /\ { BatchOrder[i] : i \in 1..Len(BatchOrder) }
         = { MovieDir[i] : i \in { k \in 1..Len(MovieDir) : Matching(MovieDir[k]) # {} } }
    /\ \A i, j \in 1..Len(BatchOrder) : i < j => ComesBefore(BatchOrder[i], BatchOrder[j])

BatchTitles ==
    \A i \in 1..Len(Batch.visited) :
        Batch.visited[i].name = TitleFor(Batch.visited[i].movie)

BatchDryRun == Batch.dry_run => Batch.downloads = <<>>

\* the loop has stopped only at the end of the list
BatchGoesOn ==
    /\ Batch.pc # "crashed"
    /\ Batch.pc = "done" => Batch.movie_files = <<>>

C28_TrailerBatchLoop ==
    (batch # <<>> /\ Batch.pc # "start") =>
        /\ BatchEnumeration
        /\ BatchTitles
        /\ BatchDryRun
        /\ BatchGoesOn

(***************************************************************************)
(* C29: extract_subtitles runs one extraction per stream, in the order of  *)
(* the prober's lines, the k-th mapping the index of the k-th line to the  *)
(* file 'subtitle_<index>_<language>.sup', the language being 'unknown'    *)
(* for a line without one.  When the prober fails nothing is extracted;    *)
(* when an extraction fails no later stream is extracted and the files     *)
(* extracted before stay in the directory; in every case the function      *)
(* returns and no exception reaches the caller.                            *)
(***************************************************************************)
Extract == extract[1]

LineIndex(line) == << line[1] >>

LineLanguage(line) == IF Len(line) > 2 THEN SubSeq(line, 3, Len(line)) ELSE UNKNOWN

ExpectedFile(line) ==
    << "subtitle_" >> \o LineIndex(line) \o << "_" >> \o LineLanguage(line) \o << ".sup" >>

\* the extractions that ended well: all, or all but the last
Succeeded ==
    IF Extract.e = "" THEN 1..Len(Extract.commands) ELSE 1..(Len(Extract.commands) - 1)

WholeFiles == { f.name : f \in { g \in Extract.dir : g.whole } }

C29_SubtitleExtraction ==
    (extract # <<>> /\ Extract.pc # "start") =>
        /\ Extract.pc # "raised"
        /\ Len(Extract.commands) <= Len(Extract.stdout)
        /\ \A k \in 1..Len(Extract.commands) :
              /\ Extract.commands[k].map = LineIndex(Extract.stdout[k])
              /\ Extract.commands[k].output = ExpectedFile(Extract.stdout[k])
        /\ WholeFiles = { ExpectedFile(Extract.stdout[k]) : k \in Succeeded }
        /\ \A f \in Extract.dir :
              \E k \in 1..Len(Extract.commands) : f.name = ExpectedFile(Extract.stdout[k])
        /\ (Extract.pc = "returned" /\ Extract.e = "")
              => Len(Extract.commands) = Len(Extract.stdout)

\* the second extraction failed: the first file is kept, the call returned
C29_Witness ==
    /\ extract # <<>>
    /\ Extract.pc = "returned"
    /\ Extract.e = "CalledProcessError"
    /\ Len(Extract.stdout) = 2
    /\ Len(Extract.commands) = 2
    /\ WholeFiles = { ExpectedFile(Extract.stdout[1]) }
    /\ LineLanguage(Extract.stdout[1]) = UNKNOWN
    /\ Len(Extract.stdout[1]) = 1

\* the failure comes at the first of two streams: the second is not tried
C29_WitnessStops ==
    /\ extract # <<>>
    /\ Extract.pc = "returned"
    /\ Extract.e = "FileNotFoundError"
    /\ Len(Extract.stdout) = 2
    /\ Len(Extract.commands) = 1
    /\ Extract.dir = {}

\* both streams extracted, in the prober's order
C29_WitnessAll ==
    /\ extract # <<>>
    /\ Extract.pc = "returned"
    /\ Extract.e = ""
    /\ Len(Extract.commands) = 2
    /\ Extract.commands[2].output = << "subtitle_", "3", "_", "p", "o", "r", ".sup" >>

====
